---- MODULE Spec2Model ----
(***************************************************************************)
(* Two-party authorization handshake of TwentyOneService                   *)
(* (prepareStartGame / importAndSignAuthEntry / finalizeStartGame /        *)
(* parseAuthEntry), with the ledger, the wallets and the counterparty's    *)
(* channel as environment.                                                 *)
(***************************************************************************)
EXTENDS Integers, Sequences, FiniteSets, TLC

(***************************************************************************)
(* Bounds of the model.                                                    *)
(***************************************************************************)
\* Width in bits of one half (hi or lo) of an Int128Parts value.  The XDR
\* type has 64-bit halves; the model keeps the two-halves layout and the
\* modular arithmetic at a width TLC's integers can hold.
HalfBits == 3
\* Longest authorization list a simulation returns.
MaxAuth == 2
\* Ledger sequence numbers: first height, step of one advance, last height.
LedgerStart == 100
TickStep == 400
MaxLedger == 1000
\* Handshake attempts the importing party makes.
MaxAttempts == 2

(***************************************************************************)
(* Program constants.                                                      *)
(***************************************************************************)
MULTI_SIG_AUTH_TTL_MINUTES == 60
DEFAULT_AUTH_TTL_MINUTES == 5
LEDGERS_PER_MINUTE == 12
EXPECTED_ARGS == 2

Half == 2 ^ HalfBits
I128Min == 0 - (2 ^ (2 * HalfBits - 1))
I128Max == (2 ^ (2 * HalfBits - 1)) - 1

Addresses == {"GA", "GB"}
AddrCode(a) == CASE a = "GA" -> 1 [] a = "GB" -> 2 [] a = "GC" -> 3 [] OTHER -> 0
CodeAddr(c) == CASE c = 1 -> "GA" [] c = 2 -> "GB" [] c = 3 -> "GC" [] OTHER -> ""
FnNames == {"start_game", "end_game"}
FnCode(f) == CASE f = "start_game" -> 1 [] f = "end_game" -> 2 [] OTHER -> 0
CodeFn(c) == CASE c = 1 -> "start_game" [] c = 2 -> "end_game" [] OTHER -> ""

CredAddress == "sorobanCredentialsAddress"
CredSource == "sorobanCredentialsSourceAccount"

(***************************************************************************)
(* ScVal values: the generated client turns its native arguments into      *)
(* ScVals; an i128 is stored as a signed hi half and an unsigned lo half.   *)
(***************************************************************************)
ScU32(n) == [t |-> "u32", hi |-> 0, lo |-> n]
ScI128(v) == [t |-> "i128", hi |-> v \div Half, lo |-> v % Half]

\* args[0].u32(): the arm of the union, an error for any other arm.
ArmU32(sv) == IF sv.t = "u32" THEN [ok |-> TRUE, v |-> sv.lo] ELSE [ok |-> FALSE, v |-> 0]
\* args[1].i128().lo().toBigInt(): the low half only, read as unsigned.
ArmI128Lo(sv) == IF sv.t = "i128" THEN [ok |-> TRUE, v |-> sv.lo] ELSE [ok |-> FALSE, v |-> 0]

(***************************************************************************)
(* SorobanAuthorizationEntry and its XDR encoding (a sequence of words).    *)
(***************************************************************************)
FlatVal(sv) == IF sv.t = "u32" THEN <<3, sv.lo>> ELSE <<10, sv.hi, sv.lo>>

RECURSIVE FlatArgs(_)
FlatArgs(args) ==
    IF args = <<>> THEN <<>> ELSE FlatVal(Head(args)) \o FlatArgs(Tail(args))

\* What a signature covers: the signing key, the expiry and the invocation.
Preimage(e, validUntil) == <<validUntil, FnCode(e.fn), Len(e.args)>> \o FlatArgs(e.args)
SignatureOf(key, e, validUntil) == <<AddrCode(key)>> \o Preimage(e, validUntil)

StubEntry(a, fn, args) ==
    [cred |-> CredAddress, address |-> a, expiry |-> 0, sig |-> <<>>, fn |-> fn, args |-> args]
SourceEntry(fn, args) ==
    [cred |-> CredSource, address |-> "", expiry |-> 0, sig |-> <<>>, fn |-> fn, args |-> args]

ToXDR(e) ==
    (IF e.cred = CredAddress
       THEN <<1, AddrCode(e.address), e.expiry, Len(e.sig)>> \o e.sig
       ELSE <<0>>)
    \o <<FnCode(e.fn), Len(e.args)>> \o FlatArgs(e.args)

RECURSIVE ReadArgs(_, _, _)
\* Reads n ScVals from position pos of s; <<ok, args, next position>>.
ReadArgs(s, pos, n) ==
    IF n = 0 THEN [ok |-> TRUE, args |-> <<>>, pos |-> pos]
    ELSE IF pos > Len(s) THEN [ok |-> FALSE, args |-> <<>>, pos |-> pos]
    ELSE IF s[pos] = 3 /\ pos + 1 <= Len(s)
      THEN LET r == ReadArgs(s, pos + 2, n - 1)
           IN  [ok |-> r.ok, args |-> <<ScU32(s[pos + 1])>> \o r.args, pos |-> r.pos]
    ELSE IF s[pos] = 10 /\ pos + 2 <= Len(s)
      THEN LET r == ReadArgs(s, pos + 3, n - 1)
           IN  [ok |-> r.ok,
                args |-> <<[t |-> "i128", hi |-> s[pos + 1], lo |-> s[pos + 2]]>> \o r.args,
                pos |-> r.pos]
    ELSE [ok |-> FALSE, args |-> <<>>, pos |-> pos]

BadXDR == [ok |-> FALSE, entry |-> SourceEntry("", <<>>)]

\* xdr.SorobanAuthorizationEntry.fromXDR: the entry, or an error for words
\* that are no entry.
FromXDR(s) ==
    IF Len(s) = 0 THEN BadXDR
    ELSE IF s[1] = 0 THEN
      IF Len(s) < 3 THEN BadXDR
      ELSE LET r == ReadArgs(s, 4, s[3])
           IN  IF r.ok /\ r.pos = Len(s) + 1 /\ CodeFn(s[2]) # ""
                 THEN [ok |-> TRUE, entry |-> SourceEntry(CodeFn(s[2]), r.args)]
                 ELSE BadXDR
    ELSE IF s[1] = 1 THEN
      IF Len(s) < 4 \/ Len(s) < 4 + s[4] + 2 THEN BadXDR
      ELSE LET n == s[4]
               r == ReadArgs(s, 4 + n + 3, s[4 + n + 2])
           IN  IF r.ok /\ r.pos = Len(s) + 1 /\ CodeFn(s[4 + n + 1]) # "" /\ CodeAddr(s[2]) # ""
                 THEN [ok |-> TRUE,
                       entry |-> [cred |-> CredAddress, address |-> CodeAddr(s[2]),
                                  expiry |-> s[3], sig |-> SubSeq(s, 5, 4 + n),
                                  fn |-> CodeFn(s[4 + n + 1]), args |-> r.args]]
                 ELSE BadXDR
    ELSE BadXDR

(***************************************************************************)
(* parseAuthEntry                                                          *)
(***************************************************************************)
ParseError(msg) ==
    [ok |-> FALSE, error |-> msg, sessionId |-> 0, player1 |-> "", player1Points |-> 0]

\* parseAuthEntry without the comparison of the function name.
parseAuthEntry_NoNameCheck(authEntryXDR) ==
    LET d == FromXDR(authEntryXDR)
        e == d.entry
    IN  IF ~d.ok THEN ParseError("XdrError")
        ELSE IF e.cred # CredAddress THEN ParseError("UnsupportedCredential")
        ELSE IF Len(e.args) # EXPECTED_ARGS THEN ParseError("ArgumentShapeMismatch")
        ELSE IF ~ArmU32(e.args[1]).ok \/ ~ArmI128Lo(e.args[2]).ok THEN ParseError("XdrError")
        ELSE [ok |-> TRUE, error |-> "none",
              sessionId |-> ArmU32(e.args[1]).v,
              player1 |-> e.address,
              player1Points |-> ArmI128Lo(e.args[2]).v]

\* parseAuthEntry with the credential type tested after the invocation.
parseAuthEntry_CredentialLast(authEntryXDR) ==
    LET d == FromXDR(authEntryXDR)
        e == d.entry
    IN  IF ~d.ok THEN ParseError("XdrError")
        ELSE IF e.fn # "start_game" THEN ParseError("FunctionMismatch")
        ELSE IF Len(e.args) # EXPECTED_ARGS THEN ParseError("ArgumentShapeMismatch")
        ELSE IF e.cred # CredAddress THEN ParseError("UnsupportedCredential")
        ELSE IF ~ArmU32(e.args[1]).ok \/ ~ArmI128Lo(e.args[2]).ok THEN ParseError("XdrError")
        ELSE [ok |-> TRUE, error |-> "none",
              sessionId |-> ArmU32(e.args[1]).v,
              player1 |-> e.address,
              player1Points |-> ArmI128Lo(e.args[2]).v]

parseAuthEntry(authEntryXDR) ==
    LET d == FromXDR(authEntryXDR)
        e == d.entry
    IN  IF ~d.ok THEN ParseError("XdrError")
        ELSE IF e.cred # CredAddress THEN ParseError("UnsupportedCredential")
        ELSE IF e.fn # "start_game" THEN ParseError("FunctionMismatch")
        ELSE IF Len(e.args) # EXPECTED_ARGS THEN ParseError("ArgumentShapeMismatch")
        ELSE IF ~ArmU32(e.args[1]).ok \/ ~ArmI128Lo(e.args[2]).ok THEN ParseError("XdrError")
        ELSE [ok |-> TRUE, error |-> "none",
              sessionId |-> ArmU32(e.args[1]).v,
              player1 |-> e.address,
              player1Points |-> ArmI128Lo(e.args[2]).v]

(***************************************************************************)
(* The locator loop of prepareStartGame: index of the first entry with      *)
(* address credentials whose address is the target, 0 when the loop ends    *)
(* with player1AuthEntry still null.                                        *)
(***************************************************************************)
RECURSIVE LocateFrom(_, _, _)
LocateFrom(authEntries, i, target) ==
    IF i > Len(authEntries) THEN 0
    ELSE IF authEntries[i].cred # CredAddress THEN LocateFrom(authEntries, i + 1, target)
    ELSE IF authEntries[i].address = target THEN i
    ELSE LocateFrom(authEntries, i + 1, target)

\* The loop started one entry too late.
Locate_SkipFirst(authEntries, target) == LocateFrom(authEntries, 2, target)

\* The loop without its break: the last match stays in player1AuthEntry.
Locate_Last(authEntries, target) ==
    LET m == {i \in 1..Len(authEntries) :
                authEntries[i].cred = CredAddress /\ authEntries[i].address = target}
    IN  IF m = {} THEN 0 ELSE CHOOSE i \in m : \A j \in m : j <= i

\* The loop without the comparison of the address: the first entry with
\* address credentials is taken.
Locate_AnyAddress(authEntries, target) ==
    LET m == {i \in 1..Len(authEntries) : authEntries[i].cred = CredAddress}
    IN  IF m = {} THEN 0 ELSE CHOOSE i \in m : \A j \in m : i <= j

\* The loop with break where the code has continue: it stops at the first
\* entry that has no address credentials.
Locate_BreakOnSource(authEntries, target) ==
    LET m == {i \in 1..Len(authEntries) : authEntries[i].cred # CredAddress}
        stop == IF m = {} THEN Len(authEntries) + 1 ELSE CHOOSE i \in m : \A j \in m : i <= j
        i == LocateFrom(authEntries, 1, target)
    IN  IF i = 0 \/ i > stop THEN 0 ELSE i

Locate(authEntries, target) == LocateFrom(authEntries, 1, target)

(***************************************************************************)
(* Collaborators outside the service.                                      *)
(***************************************************************************)
\* calculateValidUntilLedger: the current height plus the duration.
calculateValidUntilLedger(height, ttlMinutes) == height + ttlMinutes * LEDGERS_PER_MINUTE

\* authorizeEntry: a signed copy of the entry with the expiry set.
authorizeEntry(e, key, validUntil) ==
    [e EXCEPT !.expiry = validUntil, !.sig = SignatureOf(key, e, validUntil)]

\* A contract that makes every signer attest to Player 2's points.
AttestedArgs_Player2Points(a, args) ==
    <<ScU32(args.session_id), ScI128(args.player2_points)>>

\* The arguments the contract makes address a attest to in start_game.
AttestedArgs(a, args) ==
    <<ScU32(args.session_id),
      ScI128(IF a = args.player1 THEN args.player1_points ELSE args.player2_points)>>

\* Entries a simulation of start_game(args) may list.
SimEntries(args) ==
    {SourceEntry("start_game", AttestedArgs(args.player2, args))}
    \cup {StubEntry(a, "start_game", AttestedArgs(a, args)) : a \in Addresses}

SimLists(args) == UNION {[1..n -> SimEntries(args)] : n \in 0..MaxAuth}

\* An entry with address credentials whose ScAddress Address.fromScAddress
\* does not convert: the conversion throws.
Unconvertible == "?"
ForeignEntry(args) == StubEntry(Unconvertible, "start_game", AttestedArgs(args.player2, args))

\* Lists the simulation awaited by prepareStartGame may carry.
SimListsA(args) ==
    UNION {[1..n -> SimEntries(args) \cup {ForeignEntry(args)}] : n \in 0..MaxAuth}

\* Errors thrown inside the try block of the locator loop and dropped by its
\* catch: one for each entry the loop reached whose address does not convert.
Caught(auth, found) ==
    Cardinality({i \in 1..(IF found = 0 THEN Len(auth) ELSE found) :
                    auth[i].cred = CredAddress /\ auth[i].address = Unconvertible})

IsSigned(e) == e.sig # <<>>

\* The ledger's check of one entry of a submitted bundle at a height.
EntryValid(e, args, height) ==
    \/ e.cred = CredSource
    \/ /\ IsSigned(e)
       /\ e.sig = SignatureOf(e.address, e, e.expiry)
       /\ height <= e.expiry
       /\ e.fn = "start_game"
       /\ e.args = AttestedArgs(e.address, args)

\* The ledger authorizes start_game when every entry is valid and both
\* players have authorized (the transaction source authorizes implicitly).
LedgerAccepts(b, height) ==
    /\ \A i \in 1..Len(b.auth) : EntryValid(b.auth[i], b.args, height)
    /\ \E i \in 1..Len(b.auth) : b.auth[i].cred = CredAddress /\ b.auth[i].address = b.args.player1
    /\ \/ b.source = b.args.player2
       \/ \E i \in 1..Len(b.auth) : b.auth[i].cred = CredAddress /\ b.auth[i].address = b.args.player2

(***************************************************************************)
(* Inputs the callers and the counterparty can supply.                      *)
(***************************************************************************)
SessionIds == {7, 42}
Points == {0 - 1, 0, 5, Half}
Player1Choices == {"GA", "GB"}
Player2Choices == {"GB"}
Player2Points == {6}
\* authTtlMinutes?: number -- absent, or a number of minutes.
TtlChoices == {[given |-> FALSE, v |-> 0], [given |-> TRUE, v |-> 0], [given |-> TRUE, v |-> 30]}
Signer1Choices == {"ok", "error", "throws", "absent"}
Signer2Choices == {"ok", "error"}

\* Entries a counterparty may send instead of an exported one.
HostileArgLists ==
    {<<>>, <<ScU32(42)>>, <<ScU32(42), ScU32(5)>>, <<ScU32(42), ScI128(5), ScI128(6)>>}
HostileEntries ==
    {[cred |-> CredAddress, address |-> "GA", expiry |-> MaxLedger, sig |-> <<9>>,
      fn |-> "start_game", args |-> as] : as \in HostileArgLists}
    \cup {[cred |-> CredAddress, address |-> "GA", expiry |-> MaxLedger, sig |-> <<9>>,
           fn |-> "end_game", args |-> <<ScU32(42), ScI128(5)>>]}
    \cup {SourceEntry("start_game", <<ScU32(42), ScI128(5)>>),
          SourceEntry("end_game", <<ScU32(42)>>)}
HostileArtifacts == {ToXDR(e) : e \in HostileEntries} \cup {<<9>>}

NoArgs == [session_id |-> 0, player1 |-> "", player2 |-> "", player1_points |-> 0,
           player2_points |-> 0]
NoCall == [args |-> NoArgs, authTtlMinutes |-> [given |-> FALSE, v |-> 0], signer |-> "absent"]
NoBundle == [source |-> "", args |-> NoArgs, auth |-> <<>>]
NoParams == ParseError("none")
NoCallB == [player2 |-> "", player2Points |-> 0, signer |-> "absent"]

\* A session of the interleaved runs before its first call: what its
\* simulations will list (as credential shapes), and the locals of its calls.
NoInputs == [player1 |-> "", shapeA |-> <<>>, shapeB |-> <<>>]
NoSess == [pc |-> "idle", in |-> NoInputs, auth |-> <<>>, found |-> 0, artifact |-> <<>>,
           bundle |-> NoBundle, err |-> "none"]

\* getGame and getHandValue: null, the values a query can unwrap, and a
\* query that was not called yet.
Null == 0 - 1
QueryValues == {0, 17, 21}
QuerySessions == {0, 7, 42, 99}
QueryMethods == {"getGame", "getHandValue"}
NoResult == [kind |-> "none", v |-> Null]
QueryResults == {[kind |-> "err", v |-> Null]} \cup {[kind |-> "ok", v |-> x] : x \in QueryValues}
NoQuery == [pc |-> "idle", method |-> "", sessionId |-> 0, player |-> "", raised |-> "none",
            result |-> NoResult, returned |-> Null]

\* The create script: its command line, the directories it finds, and a run
\* that has not started.  A directory is absent, holds earlier work ("old")
\* or holds what this run copied ("new").
CreateArgKinds == {"none", "help", "slug"}
DirStates == {"absent", "old"}
NoCreate == [pc |-> "idle", args |-> "none", validSlug |-> FALSE, force |-> FALSE,
             hasTemplate |-> FALSE, hasStudio |-> FALSE,
             contract0 |-> "absent", frontend0 |-> "absent",
             contract |-> "absent", frontend |-> "absent",
             removed |-> {}, written |-> {}, exitCode |-> 0]

\* No Cargo.toml opened and no run of updateWorkspaceMembers yet.
NoCargo == [pc |-> "idle", slug |-> "", text0 |-> <<>>, text |-> <<>>, runs |-> 0,
            threw |-> FALSE]

\* The publish script before it is started: no arguments, an empty file
\* system, no copy in progress.
NoPublish == [pc |-> "idle", args |-> "none", force |-> FALSE, out |-> <<>>,
              fs0 |-> {}, fs |-> {}, stack |-> <<>>, removed |-> {}, copied |-> {},
              exitCode |-> 0]

\* Two runs of prepareStartGame that are given the same session, Player 1,
\* Player 1 points and signer, each with its own Player 2 points.
Runs == {1, 2}
PairPoints2 == {6, 9}
NoRun == [pc |-> "idle", args |-> NoArgs, auth |-> <<>>, found |-> 0, artifact |-> <<>>,
          err |-> "none"]

VARIABLES
    ledgerSeq,          \* the network's latest ledger
    games,              \* sessions the contract has started
    call,               \* arguments of the prepareStartGame call
    pcA,                \* position of prepareStartGame
    authEntries,        \* tx.simulationData.result.auth of prepareStartGame
    player1AuthEntry,   \* index of the located entry, 0 for null
    validUntilLedgerSeq,
    artifact,           \* the string prepareStartGame returned, <<>> before
    errA,               \* error prepareStartGame threw
    ttlCalls,           \* calls of calculateValidUntilLedger by prepareStartGame
    signCalls,          \* calls of player1Signer.signAuthEntry
    sourceA,            \* publicKey of the build client of prepareStartGame
    caught,             \* errors the catch of the locator loop dropped in this call
    listIntact,         \* the locator loop left the auth list as it found it
    stubIntact,         \* authorizeEntry left the located stub as it found it
    usedBefore,         \* the exported artifact was imported in an earlier attempt
    sess,               \* the calls of two sessions in flight on the one service instance
    query,              \* a call of getGame or getHandValue
    create,             \* a run of the create script
    pair,               \* two runs of prepareStartGame on the same Player 1 inputs
    publish,            \* a run of the publish script and the file system it works on
    cargo,              \* the root Cargo.toml and the runs of updateWorkspaceMembers on it
    callB,              \* player2, player2Points, player2Signer of the importer
    pcB,                \* position of importAndSignAuthEntry / finalizeStartGame
    imported,           \* player1AuthEntryXDR given to importAndSignAuthEntry
    gameParams,         \* result of parseAuthEntry
    bundle,             \* the importer's transaction
    errB,               \* error the importer's call threw
    submits,            \* bundles handed to the ledger in this attempt
    attempt,            \* handshake attempts of the importer so far
    fault,              \* some step of some call has failed
    gamesAtStart        \* games when the current attempt began

vars == <<ledgerSeq, games, call, pcA, authEntries, player1AuthEntry, validUntilLedgerSeq,
          artifact, errA, ttlCalls, signCalls, sourceA, caught, listIntact, stubIntact,
          callB, pcB, imported, gameParams, bundle, errB, submits, attempt, fault,
          gamesAtStart, usedBefore, sess, query, create, pair,
          publish, cargo>>

ledgerVars == <<ledgerSeq, games>>
aVars == <<call, pcA, authEntries, player1AuthEntry, validUntilLedgerSeq, artifact, errA,
           ttlCalls, signCalls, sourceA, caught, listIntact, stubIntact>>
\* What the handshake between the two players leaves alone.
sideVars == <<sess, query, create, pair, publish, cargo>>
bVars == <<callB, pcB, imported, gameParams, bundle, errB, submits, attempt, gamesAtStart,
           usedBefore>>

Init ==
    /\ ledgerSeq = LedgerStart
    /\ games = {}
    /\ call = NoCall
    /\ pcA = "idle"
    /\ authEntries = <<>>
    /\ player1AuthEntry = 0
    /\ validUntilLedgerSeq = 0
    /\ artifact = <<>>
    /\ errA = "none"
    /\ ttlCalls = 0
    /\ signCalls = 0
    /\ sourceA = ""
    /\ caught = 0
    /\ listIntact = TRUE
    /\ stubIntact = TRUE
    /\ usedBefore = FALSE
    /\ sess = [s \in SessionIds |-> NoSess]
    /\ query = NoQuery
    /\ create = NoCreate
    /\ pair = [r \in Runs |-> NoRun]
    /\ publish = NoPublish
    /\ cargo = NoCargo
    /\ callB = NoCallB
    /\ pcB = "idle"
    /\ imported = <<>>
    /\ gameParams = NoParams
    /\ bundle = NoBundle
    /\ errB = "none"
    /\ submits = 0
    /\ attempt = 1
    /\ fault = FALSE
    /\ gamesAtStart = {}

(***************************************************************************)
(* prepareStartGame                                                        *)
(***************************************************************************)
\* A settled call keeps nothing but what it returned or threw: its arguments
\* and locals are gone.
DropLocalsA ==
    /\ call' = NoCall
    /\ authEntries' = <<>>
    /\ player1AuthEntry' = 0
    /\ validUntilLedgerSeq' = 0
    /\ sourceA' = ""
    /\ caught' = 0

ThrowA(msg) ==
    /\ errA' = msg
    /\ pcA' = "error"
    /\ fault' = TRUE
    /\ DropLocalsA
    /\ UNCHANGED artifact

\* The build client created with the initiator itself as source.
prepareStartGame_Call_OwnSource ==
    /\ pcA = "idle"
    /\ \E sid \in SessionIds, p1 \in Player1Choices, p2 \in Player2Choices,
          pts1 \in Points, pts2 \in Player2Points, ttl \in TtlChoices, sg \in Signer1Choices :
          /\ call' = [args |-> [session_id |-> sid, player1 |-> p1, player2 |-> p2,
                                player1_points |-> pts1, player2_points |-> pts2],
                      authTtlMinutes |-> ttl, signer |-> sg]
          /\ sourceA' = p1
    /\ pcA' = "building"
    /\ UNCHANGED <<authEntries, player1AuthEntry, validUntilLedgerSeq, artifact, errA,
                   ttlCalls, signCalls, caught, listIntact, stubIntact, fault>>
    /\ UNCHANGED ledgerVars
    /\ UNCHANGED bVars
    /\ UNCHANGED sideVars

\* The call: the build client is created with player2 as source and
\* start_game is awaited.
prepareStartGame_Call ==
    /\ pcA = "idle"
    /\ \E sid \in SessionIds, p1 \in Player1Choices, p2 \in Player2Choices,
          pts1 \in Points, pts2 \in Player2Points, ttl \in TtlChoices, sg \in Signer1Choices :
          /\ call' = [args |-> [session_id |-> sid, player1 |-> p1, player2 |-> p2,
                                player1_points |-> pts1, player2_points |-> pts2],
                      authTtlMinutes |-> ttl, signer |-> sg]
          /\ sourceA' = p2
    /\ pcA' = "building"
    /\ UNCHANGED <<authEntries, player1AuthEntry, validUntilLedgerSeq, artifact, errA,
                   ttlCalls, signCalls, caught, listIntact, stubIntact, fault>>
    /\ UNCHANGED ledgerVars
    /\ UNCHANGED bVars
    /\ UNCHANGED sideVars

\* start_game resolved: it threw, or the transaction carries no auth list,
\* or it carries the list the simulation recorded.
prepareStartGame_Simulated ==
    /\ pcA = "building"
    /\ \/ ThrowA("SimulationError")
       \/ ThrowA("NoAuthEntries")
       \/ \E l \in SimListsA(call.args) :
             /\ authEntries' = l
             /\ pcA' = "simulated"
             /\ UNCHANGED <<call, player1AuthEntry, validUntilLedgerSeq, artifact, errA,
                            sourceA, caught, fault>>
    /\ UNCHANGED <<ttlCalls, signCalls, listIntact, stubIntact>>
    /\ UNCHANGED ledgerVars
    /\ UNCHANGED bVars
    /\ UNCHANGED sideVars

\* A loop that reorders the list while it scans.
LocateScan_Reorder(auth, target) ==
    [found |-> Locate(auth, target), caught |-> Caught(auth, Locate(auth, target)),
     list  |-> [i \in 1..Len(auth) |-> auth[Len(auth) + 1 - i]]]

\* The locator loop as a whole: what it leaves in player1AuthEntry and the
\* errors its catch dropped, and the list as the loop leaves it; the loop only
\* reads the entries.
LocateScan(auth, target) ==
    [found |-> Locate(auth, target), caught |-> Caught(auth, Locate(auth, target)),
     list  |-> auth]

\* The locator loop, the null check, and the call of
\* calculateValidUntilLedger.
prepareStartGame_Locate ==
    /\ pcA = "simulated"
    /\ LET r == LocateScan(authEntries, call.args.player1)
       IN  /\ listIntact' = (r.list = authEntries)
           /\ IF r.found = 0
                THEN ThrowA("NotFound") /\ UNCHANGED ttlCalls
                ELSE /\ player1AuthEntry' = r.found
                     /\ authEntries' = r.list
                     /\ pcA' = "ttl"
                     /\ ttlCalls' = ttlCalls + 1
                     /\ caught' = r.caught
                     /\ UNCHANGED <<call, validUntilLedgerSeq, artifact, errA, sourceA, fault>>
    /\ UNCHANGED <<signCalls, stubIntact>>
    /\ UNCHANGED ledgerVars
    /\ UNCHANGED bVars
    /\ UNCHANGED sideVars

\* authTtlMinutes ? authTtlMinutes : MULTI_SIG_AUTH_TTL_MINUTES
TtlMinutes(ttl) == IF ttl.given /\ ttl.v # 0 THEN ttl.v ELSE MULTI_SIG_AUTH_TTL_MINUTES

\* calculateValidUntilLedger resolved: the signAuthEntry check and the call
\* of authorizeEntry, which asks the wallet.
prepareStartGame_Authorize ==
    /\ pcA = "ttl"
    /\ IF call.signer = "absent"
         THEN ThrowA("SigningRejected") /\ UNCHANGED signCalls
         ELSE /\ validUntilLedgerSeq' =
                     calculateValidUntilLedger(ledgerSeq, TtlMinutes(call.authTtlMinutes))
              /\ pcA' = "signing"
              /\ signCalls' = signCalls + 1
              /\ UNCHANGED <<call, authEntries, player1AuthEntry, artifact, errA,
                             sourceA, caught, fault>>
    /\ UNCHANGED <<ttlCalls, listIntact, stubIntact>>
    /\ UNCHANGED ledgerVars
    /\ UNCHANGED bVars
    /\ UNCHANGED sideVars

\* A signing that writes the signature and the expiry into the stub itself.
SignStep_InPlace(auth, i, key, validUntil) ==
    [signed |-> authorizeEntry(auth[i], key, validUntil),
     auth   |-> [auth EXCEPT ![i] = authorizeEntry(auth[i], key, validUntil)]]

\* authorizeEntry on the located stub: the signed entry it returns, and the
\* auth list of the simulated transaction afterwards (authorizeEntry signs a
\* clone of the entry it is given).
SignStep(auth, i, key, validUntil) ==
    [signed |-> authorizeEntry(auth[i], key, validUntil), auth |-> auth]

\* The wallet's error result ignored: the entry is exported all the same.
prepareStartGame_Return_IgnoreError ==
    /\ pcA = "signing"
    /\ LET r == SignStep(authEntries, player1AuthEntry, call.args.player1, validUntilLedgerSeq)
       IN  IF call.signer = "throws"
             THEN ThrowA("WalletError") /\ UNCHANGED stubIntact
             ELSE /\ artifact' = ToXDR(r.signed)
                  /\ stubIntact' = /\ r.auth = authEntries
                                   /\ ~IsSigned(r.auth[player1AuthEntry])
                                   /\ r.auth[player1AuthEntry].expiry = 0
                  /\ pcA' = "done"
                  /\ DropLocalsA
                  /\ UNCHANGED <<errA, fault>>
    /\ UNCHANGED <<ttlCalls, signCalls, listIntact>>
    /\ UNCHANGED ledgerVars
    /\ UNCHANGED bVars
    /\ UNCHANGED sideVars

\* prepareStartGame asking the wallet again after an error result.
prepareStartGame_Return_Retry ==
    /\ pcA = "signing"
    /\ LET r == SignStep(authEntries, player1AuthEntry, call.args.player1, validUntilLedgerSeq)
       IN  IF call.signer = "throws"
             THEN ThrowA("WalletError") /\ UNCHANGED <<stubIntact, signCalls>>
             ELSE IF call.signer = "error"
             THEN IF signCalls < 2
                    THEN /\ signCalls' = signCalls + 1
                         /\ UNCHANGED <<call, pcA, authEntries, player1AuthEntry,
                                        validUntilLedgerSeq, artifact, errA, sourceA, caught,
                                        stubIntact, fault>>
                    ELSE ThrowA("SigningRejected") /\ UNCHANGED <<stubIntact, signCalls>>
             ELSE /\ artifact' = ToXDR(r.signed)
                  /\ stubIntact' = /\ r.auth = authEntries
                                   /\ ~IsSigned(r.auth[player1AuthEntry])
                                   /\ r.auth[player1AuthEntry].expiry = 0
                  /\ pcA' = "done"
                  /\ DropLocalsA
                  /\ UNCHANGED <<errA, fault, signCalls>>
    /\ UNCHANGED <<ttlCalls, listIntact>>
    /\ UNCHANGED ledgerVars
    /\ UNCHANGED bVars
    /\ UNCHANGED sideVars

\* The wallet answered: it threw, or its error result throws, or its
\* signature gives the signed entry, returned as base64 XDR.
prepareStartGame_Return ==
    /\ pcA = "signing"
    /\ LET r == SignStep(authEntries, player1AuthEntry, call.args.player1, validUntilLedgerSeq)
       IN  IF call.signer = "throws"
             THEN ThrowA("WalletError") /\ UNCHANGED stubIntact
             ELSE IF call.signer = "error"
             THEN ThrowA("SigningRejected") /\ UNCHANGED stubIntact
             ELSE /\ artifact' = ToXDR(r.signed)
                  /\ stubIntact' = /\ r.auth = authEntries
                                   /\ ~IsSigned(r.auth[player1AuthEntry])
                                   /\ r.auth[player1AuthEntry].expiry = 0
                  /\ pcA' = "done"
                  /\ DropLocalsA
                  /\ UNCHANGED <<errA, fault>>
    /\ UNCHANGED <<ttlCalls, signCalls, listIntact>>
    /\ UNCHANGED ledgerVars
    /\ UNCHANGED bVars
    /\ UNCHANGED sideVars

(***************************************************************************)
(* importAndSignAuthEntry                                                  *)
(***************************************************************************)
ThrowB(msg) ==
    /\ errB' = msg
    /\ fault' = TRUE

\* What the counterparty can hand over: the exported artifact, or its own.
Offered == (IF artifact # <<>> THEN {artifact} ELSE {}) \cup HostileArtifacts

\* The call: parseAuthEntry, then the client with player2 as source and the
\* awaited start_game.
importAndSignAuthEntry_Parse ==
    /\ pcA \in {"done", "error"}
    /\ pcB = "idle"
    /\ errB = "none"
    /\ \E x \in Offered, p2 \in Player2Choices, pts2 \in Player2Points, sg \in Signer2Choices :
          /\ imported' = x
          /\ callB' = [player2 |-> p2, player2Points |-> pts2, signer |-> sg]
          /\ IF parseAuthEntry(x).ok
               THEN /\ gameParams' = parseAuthEntry(x)
                    /\ pcB' = "building"
                    /\ UNCHANGED <<errB, fault>>
               ELSE /\ ThrowB(parseAuthEntry(x).error)
                    /\ UNCHANGED <<gameParams, pcB>>
    /\ UNCHANGED <<bundle, submits, attempt, gamesAtStart, usedBefore>>
    /\ UNCHANGED ledgerVars
    /\ UNCHANGED aVars
    /\ UNCHANGED sideVars

RebuiltArgs ==
    [session_id |-> gameParams.sessionId, player1 |-> gameParams.player1,
     player2 |-> callB.player2, player1_points |-> gameParams.player1Points,
     player2_points |-> callB.player2Points]

\* The rebuild with the player of the imported entry as source.
importAndSignAuthEntry_Built_Player1Source ==
    /\ pcB = "building"
    /\ errB = "none"
    /\ \/ ThrowB("SimulationError") /\ UNCHANGED <<bundle, pcB>>
       \/ \E l \in SimLists(RebuiltArgs) :
             /\ bundle' = [source |-> gameParams.player1, args |-> RebuiltArgs, auth |-> l]
             /\ pcB' = "built"
             /\ UNCHANGED <<errB, fault>>
    /\ UNCHANGED <<callB, imported, gameParams, submits, attempt, gamesAtStart, usedBefore>>
    /\ UNCHANGED ledgerVars
    /\ UNCHANGED aVars
    /\ UNCHANGED sideVars

\* A build whose simulation writes the game to the ledger.
importAndSignAuthEntry_Built_Commit ==
    /\ pcB = "building"
    /\ errB = "none"
    /\ \/ ThrowB("SimulationError") /\ UNCHANGED <<bundle, pcB, games>>
       \/ \E l \in SimLists(RebuiltArgs) :
             /\ bundle' = [source |-> callB.player2, args |-> RebuiltArgs, auth |-> l]
             /\ games' = games \cup {RebuiltArgs}
             /\ pcB' = "built"
             /\ UNCHANGED <<errB, fault>>
    /\ UNCHANGED <<callB, imported, gameParams, submits, attempt, gamesAtStart, usedBefore>>
    /\ UNCHANGED ledgerSeq
    /\ UNCHANGED aVars
    /\ UNCHANGED sideVars

\* start_game resolved with the simulated transaction.
importAndSignAuthEntry_Built ==
    /\ pcB = "building"
    /\ errB = "none"
    /\ \/ ThrowB("SimulationError") /\ UNCHANGED <<bundle, pcB>>
       \/ \E l \in SimLists(RebuiltArgs) :
             /\ bundle' = [source |-> callB.player2, args |-> RebuiltArgs, auth |-> l]
             /\ pcB' = "built"
             /\ UNCHANGED <<errB, fault>>
    /\ UNCHANGED <<callB, imported, gameParams, submits, attempt, gamesAtStart, usedBefore>>
    /\ UNCHANGED ledgerVars
    /\ UNCHANGED aVars
    /\ UNCHANGED sideVars

\* injectSignedAuthEntry, the merge: the stub of the remote signer is replaced
\* by the imported entry; AddressMismatch when the bundle has no such stub.
injectMerge(auth, signedXDR) ==
    LET e == FromXDR(signedXDR).entry
        i == Locate(auth, e.address)
    IN  IF i = 0
          THEN [ok |-> FALSE, error |-> "AddressMismatch", auth |-> auth]
          ELSE [ok |-> TRUE, error |-> "none", auth |-> [auth EXCEPT ![i] = e]]

LocalStubs(auth, who) ==
    {i \in 1..Len(auth) : auth[i].cred = CredAddress /\ auth[i].address = who /\ ~IsSigned(auth[i])}

\* injectSignedAuthEntry, the local signing: every stub left for the local
\* signer is signed; SigningRejected when the wallet declines.
injectSignLocal(auth, who, signer, validUntil) ==
    IF LocalStubs(auth, who) # {} /\ signer # "ok"
      THEN [ok |-> FALSE, error |-> "SigningRejected", auth |-> auth]
      ELSE [ok |-> TRUE, error |-> "none",
            auth |-> [i \in 1..Len(auth) |->
                        IF i \in LocalStubs(auth, who)
                          THEN authorizeEntry(auth[i], who, validUntil) ELSE auth[i]]]

\* importAndSignAuthEntry with the error of the merge caught and dropped.
importAndSignAuthEntry_Inject_Swallow ==
    /\ pcB = "built"
    /\ errB = "none"
    /\ bundle' = [bundle EXCEPT !.auth = injectMerge(bundle.auth, imported).auth]
    /\ pcB' = "merged"
    /\ UNCHANGED <<errB, fault>>
    /\ UNCHANGED <<callB, imported, gameParams, submits, attempt, gamesAtStart, usedBefore>>
    /\ UNCHANGED ledgerVars
    /\ UNCHANGED aVars
    /\ UNCHANGED sideVars

\* The awaited injectSignedAuthEntry up to its wallet request: an error it
\* throws leaves importAndSignAuthEntry.
importAndSignAuthEntry_Inject ==
    /\ pcB = "built"
    /\ errB = "none"
    /\ LET m == injectMerge(bundle.auth, imported)
       IN  IF m.ok
             THEN /\ bundle' = [bundle EXCEPT !.auth = m.auth]
                  /\ pcB' = "merged"
                  /\ UNCHANGED <<errB, fault>>
             ELSE ThrowB(m.error) /\ UNCHANGED <<bundle, pcB>>
    /\ UNCHANGED <<callB, imported, gameParams, submits, attempt, gamesAtStart, usedBefore>>
    /\ UNCHANGED ledgerVars
    /\ UNCHANGED aVars
    /\ UNCHANGED sideVars

\* injectSignedAuthEntry resolved: updatedTx.toXDR() is returned.
importAndSignAuthEntry_Return ==
    /\ pcB = "merged"
    /\ errB = "none"
    /\ LET g == injectSignLocal(bundle.auth, callB.player2, callB.signer,
                    calculateValidUntilLedger(ledgerSeq, DEFAULT_AUTH_TTL_MINUTES))
       IN  IF g.ok
             THEN /\ bundle' = [bundle EXCEPT !.auth = g.auth]
                  /\ pcB' = "signed"
                  /\ UNCHANGED <<errB, fault>>
             ELSE ThrowB(g.error) /\ UNCHANGED <<bundle, pcB>>
    /\ UNCHANGED <<callB, imported, gameParams, submits, attempt, gamesAtStart, usedBefore>>
    /\ UNCHANGED ledgerVars
    /\ UNCHANGED aVars
    /\ UNCHANGED sideVars

(***************************************************************************)
(* finalizeStartGame                                                       *)
(***************************************************************************)
\* A re-simulation that records the auth list afresh: every entry with
\* address credentials is a stub again.
finalizeStartGame_Simulate_Reset ==
    /\ pcB = "signed"
    /\ errB = "none"
    /\ \/ ThrowB("SimulationError") /\ UNCHANGED <<pcB, bundle>>
       \/ /\ pcB' = "resimulated"
          /\ bundle' = [bundle EXCEPT !.auth =
                           [i \in 1..Len(bundle.auth) |->
                               IF bundle.auth[i].cred = CredAddress
                                 THEN StubEntry(bundle.auth[i].address, bundle.auth[i].fn,
                                                bundle.auth[i].args)
                                 ELSE bundle.auth[i]]]
          /\ UNCHANGED <<errB, fault>>
    /\ UNCHANGED <<callB, imported, gameParams, submits, attempt, gamesAtStart, usedBefore>>
    /\ UNCHANGED ledgerVars
    /\ UNCHANGED aVars
    /\ UNCHANGED sideVars

\* txFromXDR and the awaited tx.simulate().
finalizeStartGame_Simulate ==
    /\ pcB = "signed"
    /\ errB = "none"
    /\ \/ ThrowB("SimulationError") /\ UNCHANGED pcB
       \/ pcB' = "resimulated" /\ UNCHANGED <<errB, fault>>
    /\ UNCHANGED <<callB, imported, gameParams, bundle, submits, attempt, gamesAtStart, usedBefore>>
    /\ UNCHANGED ledgerVars
    /\ UNCHANGED aVars
    /\ UNCHANGED sideVars

\* finalizeStartGame returning without handing the transaction over.
finalizeStartGame_Send_NoSubmit ==
    /\ pcB = "resimulated"
    /\ errB = "none"
    /\ pcB' = "confirmed"
    /\ UNCHANGED <<callB, imported, gameParams, bundle, errB, submits, attempt, gamesAtStart,
                   usedBefore,
                   fault>>
    /\ UNCHANGED ledgerVars
    /\ UNCHANGED aVars
    /\ UNCHANGED sideVars

\* finalizeStartGame handing the transaction over without waiting for the
\* simulation.
finalizeStartGame_Send_Unsimulated ==
    /\ pcB \in {"signed", "resimulated"}
    /\ errB = "none"
    /\ pcB' = "submitted"
    /\ submits' = submits + 1
    /\ UNCHANGED <<callB, imported, gameParams, bundle, errB, attempt, gamesAtStart,
                   usedBefore, fault>>
    /\ UNCHANGED ledgerVars
    /\ UNCHANGED aVars
    /\ UNCHANGED sideVars

\* calculateValidUntilLedger and the call of signAndSendViaLaunchtube: the
\* transaction is handed over for submission.
finalizeStartGame_Send ==
    /\ pcB = "resimulated"
    /\ errB = "none"
    /\ pcB' = "submitted"
    /\ submits' = submits + 1
    /\ UNCHANGED <<callB, imported, gameParams, bundle, errB, attempt, gamesAtStart,
                   usedBefore, fault>>
    /\ UNCHANGED ledgerVars
    /\ UNCHANGED aVars
    /\ UNCHANGED sideVars

\* finalizeStartGame with the rejection caught and dropped.
finalizeStartGame_Result_Swallow ==
    /\ pcB = "submitted"
    /\ errB = "none"
    /\ \/ /\ LedgerAccepts(bundle, ledgerSeq)
          /\ games' = games \cup {bundle.args}
       \/ UNCHANGED games
    /\ pcB' = "confirmed"
    /\ UNCHANGED <<errB, fault>>
    /\ UNCHANGED <<callB, imported, gameParams, bundle, submits, attempt, gamesAtStart, usedBefore>>
    /\ UNCHANGED ledgerSeq
    /\ UNCHANGED aVars
    /\ UNCHANGED sideVars

\* finalizeStartGame sending again after a rejection.
finalizeStartGame_Result_Retry ==
    /\ pcB = "submitted"
    /\ errB = "none"
    /\ \/ /\ LedgerAccepts(bundle, ledgerSeq)
          /\ games' = games \cup {bundle.args}
          /\ pcB' = "confirmed"
          /\ UNCHANGED <<errB, fault, submits>>
       \/ /\ submits < 3
          /\ submits' = submits + 1
          /\ UNCHANGED <<pcB, errB, fault, games>>
    /\ UNCHANGED <<callB, imported, gameParams, bundle, attempt, gamesAtStart, usedBefore>>
    /\ UNCHANGED ledgerSeq
    /\ UNCHANGED aVars
    /\ UNCHANGED sideVars

\* finalizeStartGame reporting an accepted submission as not confirmed.
finalizeStartGame_Result_Misreport ==
    /\ pcB = "submitted"
    /\ errB = "none"
    /\ \/ /\ LedgerAccepts(bundle, ledgerSeq)
          /\ games' = games \cup {bundle.args}
          /\ pcB' = "failed"
          /\ UNCHANGED <<errB, fault>>
       \/ /\ ThrowB("SubmissionError")
          /\ pcB' = "failed"
          /\ UNCHANGED games
    /\ UNCHANGED <<callB, imported, gameParams, bundle, submits, attempt, gamesAtStart, usedBefore>>
    /\ UNCHANGED ledgerSeq
    /\ UNCHANGED aVars
    /\ UNCHANGED sideVars

\* signAndSendViaLaunchtube resolved or threw: sentTx.result is returned, a
\* rejection propagates.
finalizeStartGame_Result ==
    /\ pcB = "submitted"
    /\ errB = "none"
    /\ \/ /\ LedgerAccepts(bundle, ledgerSeq)
          /\ games' = games \cup {bundle.args}
          /\ pcB' = "confirmed"
          /\ UNCHANGED <<errB, fault>>
       \/ /\ ThrowB("SubmissionError")
          /\ pcB' = "failed"
          /\ UNCHANGED games
    /\ UNCHANGED <<callB, imported, gameParams, bundle, submits, attempt, gamesAtStart, usedBefore>>
    /\ UNCHANGED ledgerSeq
    /\ UNCHANGED aVars
    /\ UNCHANGED sideVars

(***************************************************************************)
(* Environment                                                             *)
(***************************************************************************)
\* The network closes ledgers.
AdvanceLedger ==
    /\ ledgerSeq + TickStep <= MaxLedger
    /\ ledgerSeq' = ledgerSeq + TickStep
    /\ UNCHANGED <<games, fault>>
    /\ UNCHANGED aVars
    /\ UNCHANGED bVars
    /\ UNCHANGED sideVars

\* The importer abandons an ended attempt and starts over.
Restart ==
    /\ errB # "none" \/ pcB = "confirmed"
    /\ attempt < MaxAttempts
    /\ attempt' = attempt + 1
    /\ callB' = NoCallB
    /\ pcB' = "idle"
    /\ imported' = <<>>
    /\ gameParams' = NoParams
    /\ bundle' = NoBundle
    /\ errB' = "none"
    /\ submits' = 0
    /\ gamesAtStart' = games
    /\ usedBefore' = (usedBefore \/ (imported # <<>> /\ imported = artifact))
    /\ UNCHANGED fault
    /\ UNCHANGED ledgerVars
    /\ UNCHANGED aVars
    /\ UNCHANGED sideVars

Next ==
    \/ prepareStartGame_Call
    \/ prepareStartGame_Simulated
    \/ prepareStartGame_Locate
    \/ prepareStartGame_Authorize
    \/ prepareStartGame_Return
    \/ importAndSignAuthEntry_Parse
    \/ importAndSignAuthEntry_Built
    \/ importAndSignAuthEntry_Inject
    \/ importAndSignAuthEntry_Return
    \/ finalizeStartGame_Simulate
    \/ finalizeStartGame_Send
    \/ finalizeStartGame_Result
    \/ AdvanceLedger
    \/ Restart

Spec == Init /\ [][Next]_vars

\* Every call that was made runs on: each awaited step resolves, and the
\* counterparty imports what it was offered and finalizes what it signed.
Fairness ==
    /\ WF_vars(prepareStartGame_Call)
    /\ WF_vars(prepareStartGame_Simulated)
    /\ WF_vars(prepareStartGame_Locate)
    /\ WF_vars(prepareStartGame_Authorize)
    /\ WF_vars(prepareStartGame_Return)
    /\ WF_vars(importAndSignAuthEntry_Parse)
    /\ WF_vars(importAndSignAuthEntry_Built)
    /\ WF_vars(importAndSignAuthEntry_Inject)
    /\ WF_vars(importAndSignAuthEntry_Return)
    /\ WF_vars(finalizeStartGame_Simulate)
    /\ WF_vars(finalizeStartGame_Send)
    /\ WF_vars(finalizeStartGame_Result)

FairSpec == Init /\ [][Next]_vars /\ Fairness

(***************************************************************************)
(* Two sessions on the one exported service instance.  Every call of       *)
(* prepareStartGame and importAndSignAuthEntry creates its own client and   *)
(* transaction and keeps them in locals; the calls of the two sessions are  *)
(* interleaved at their awaits, at one ledger height.                      *)
(***************************************************************************)
SessPlayer2 == "GB"
SessPoints1 == 5
SessPoints2 == 6

\* What the network lists for a session's start_game: a credential per entry.
Shapes == UNION {[1..n -> {"src"} \cup Addresses] : n \in 0..MaxAuth}

SessArgs(s, in) ==
    [session_id |-> s, player1 |-> in.player1, player2 |-> SessPlayer2,
     player1_points |-> SessPoints1, player2_points |-> SessPoints2]

ShapeEntries(shape, args) ==
    [i \in 1..Len(shape) |->
        IF shape[i] = "src"
          THEN SourceEntry("start_game", AttestedArgs(args.player2, args))
          ELSE StubEntry(shape[i], "start_game", AttestedArgs(shape[i], args))]

SessRebuiltArgs(g) ==
    [session_id |-> g.sessionId, player1 |-> g.player1, player2 |-> SessPlayer2,
     player1_points |-> g.player1Points, player2_points |-> SessPoints2]

MainUnchanged ==
    UNCHANGED <<ledgerVars, aVars, bVars, fault, query, create, pair, publish, cargo>>

\* prepareStartGame called for session s.
Sess_Call(s) ==
    /\ sess[s].pc = "idle"
    /\ \E p1 \in Player1Choices, sh \in Shapes :
          sess' = [sess EXCEPT ![s] = [@ EXCEPT !.pc = "building",
                                                !.in = [player1 |-> p1, shapeA |-> sh,
                                                        shapeB |-> sh]]]
    /\ MainUnchanged

\* A service that keeps the simulated auth list in a field of the instance:
\* the list of one call replaces the list of every call in flight.
Sess_Simulated_Shared(s) ==
    /\ sess[s].pc = "building"
    /\ LET l == ShapeEntries(sess[s].in.shapeA, SessArgs(s, sess[s].in))
       IN  sess' = [t \in SessionIds |->
                      IF t = s THEN [sess[t] EXCEPT !.pc = "simulated", !.auth = l]
                      ELSE IF sess[t].pc \in {"building", "simulated"}
                      THEN [sess[t] EXCEPT !.auth = l]
                      ELSE sess[t]]
    /\ MainUnchanged

\* start_game of session s resolved: its auth list is in the call's local tx.
Sess_Simulated(s) ==
    /\ sess[s].pc = "building"
    /\ sess' = [sess EXCEPT ![s] = [@ EXCEPT !.pc = "simulated",
                      !.auth = ShapeEntries(sess[s].in.shapeA, SessArgs(s, sess[s].in))]]
    /\ MainUnchanged

\* The locator loop and the null check of session s.
Sess_Locate(s) ==
    /\ sess[s].pc = "simulated"
    /\ LET i == LocateScan(sess[s].auth, sess[s].in.player1).found
       IN  sess' = [sess EXCEPT ![s] =
                      IF i = 0
                        THEN [@ EXCEPT !.pc = "error", !.err = "NotFound", !.auth = <<>>]
                        ELSE [@ EXCEPT !.pc = "ttl", !.found = i]]
    /\ MainUnchanged

\* The TTL and authorizeEntry of session s, and the returned XDR.
Sess_Export(s) ==
    /\ sess[s].pc = "ttl"
    /\ sess' = [sess EXCEPT ![s] = [@ EXCEPT !.pc = "exported", !.auth = <<>>, !.found = 0,
                      !.artifact =
                          ToXDR(SignStep(sess[s].auth, sess[s].found, sess[s].in.player1,
                                         calculateValidUntilLedger(ledgerSeq,
                                             MULTI_SIG_AUTH_TTL_MINUTES)).signed)]]
    /\ MainUnchanged

\* importAndSignAuthEntry of session s up to the resolved start_game.
Sess_Import(s) ==
    /\ sess[s].pc = "exported"
    /\ LET g == parseAuthEntry(sess[s].artifact)
       IN  sess' = [sess EXCEPT ![s] =
                      IF ~g.ok
                        THEN [@ EXCEPT !.pc = "error", !.err = g.error]
                        ELSE [@ EXCEPT !.pc = "rebuilt",
                                       !.bundle = [source |-> SessPlayer2,
                                                   args |-> SessRebuiltArgs(g),
                                                   auth |-> ShapeEntries(sess[s].in.shapeB,
                                                                SessRebuiltArgs(g))]]]
    /\ MainUnchanged

\* injectSignedAuthEntry of session s and the returned XDR.
Sess_Inject(s) ==
    /\ sess[s].pc = "rebuilt"
    /\ LET m == injectMerge(sess[s].bundle.auth, sess[s].artifact)
           g == injectSignLocal(m.auth, SessPlayer2, "ok",
                    calculateValidUntilLedger(ledgerSeq, DEFAULT_AUTH_TTL_MINUTES))
       IN  sess' = [sess EXCEPT ![s] =
                      IF ~m.ok
                        THEN [@ EXCEPT !.pc = "error", !.err = m.error]
                        ELSE [@ EXCEPT !.pc = "signed", !.bundle.auth = g.auth]]
    /\ MainUnchanged

SessionNext ==
    \/ \E s \in SessionIds : Sess_Call(s)
    \/ \E s \in SessionIds : Sess_Simulated(s)
    \/ \E s \in SessionIds : Sess_Locate(s)
    \/ \E s \in SessionIds : Sess_Export(s)
    \/ \E s \in SessionIds : Sess_Import(s)
    \/ \E s \in SessionIds : Sess_Inject(s)

SessionSpec == Init /\ [][SessionNext]_vars

\* A session run alone: the same calls, one after the other, on a service
\* nothing else uses.
Solo(s, in) ==
    LET l == ShapeEntries(in.shapeA, SessArgs(s, in))
        i == Locate(l, in.player1)
        x == ToXDR(authorizeEntry(l[i], in.player1,
                     calculateValidUntilLedger(LedgerStart, MULTI_SIG_AUTH_TTL_MINUTES)))
        g == parseAuthEntry(x)
        b == ShapeEntries(in.shapeB, SessRebuiltArgs(g))
        m == injectMerge(b, x)
        d == injectSignLocal(m.auth, SessPlayer2, "ok",
                 calculateValidUntilLedger(LedgerStart, DEFAULT_AUTH_TTL_MINUTES))
    IN  IF i = 0 THEN [err |-> "NotFound", artifact |-> <<>>, bundle |-> NoBundle]
        ELSE IF ~g.ok THEN [err |-> g.error, artifact |-> x, bundle |-> NoBundle]
        ELSE IF ~m.ok THEN [err |-> m.error, artifact |-> x, bundle |-> NoBundle]
        ELSE [err |-> "none", artifact |-> x,
              bundle |-> [source |-> SessPlayer2, args |-> SessRebuiltArgs(g), auth |-> d.auth]]

(***************************************************************************)
(* getGame and getHandValue: the query is built, simulated and unwrapped    *)
(* inside one try block whose catch returns null.                          *)
(***************************************************************************)
QueryFrame ==
    UNCHANGED <<ledgerVars, aVars, bVars, fault, sess, create, pair, publish, cargo>>

\* getGame(sessionId) or getHandValue(sessionId, player) is called.
Query_Call ==
    /\ query.pc = "idle"
    /\ \E m \in QueryMethods, sid \in QuerySessions, p \in Addresses \cup {""} :
          /\ (m = "getGame") <=> (p = "")
          /\ query' = [NoQuery EXCEPT !.pc = "building", !.method = m, !.sessionId = sid,
                                      !.player = p]
    /\ QueryFrame

\* The awaited baseClient.get_game / get_hand_value: it resolves with the
\* transaction, or it rejects and the catch returns null.
Query_Built ==
    /\ query.pc = "building"
    /\ \/ query' = [query EXCEPT !.pc = "simulating"]
       \/ query' = [query EXCEPT !.pc = "returned", !.raised = "build", !.returned = Null]
    /\ QueryFrame

\* The simulation awaited outside the try block: its rejection leaves the
\* method.
Query_Simulated_NoCatch ==
    /\ query.pc = "simulating"
    /\ \/ \E r \in QueryResults :
             query' = [query EXCEPT !.pc = "simulated", !.result = r]
       \/ query' = [query EXCEPT !.pc = "thrown", !.raised = "simulate"]
    /\ QueryFrame

\* The awaited tx.simulate(): it resolves with an Ok or an Err result, or it
\* rejects and the catch returns null.
Query_Simulated ==
    /\ query.pc = "simulating"
    /\ \/ \E r \in QueryResults :
             query' = [query EXCEPT !.pc = "simulated", !.result = r]
       \/ query' = [query EXCEPT !.pc = "returned", !.raised = "simulate", !.returned = Null]
    /\ QueryFrame

\* result.result.isOk() ? unwrap() : null
Query_Return ==
    /\ query.pc = "simulated"
    /\ query' = [query EXCEPT !.pc = "returned",
                              !.returned = IF query.result.kind = "ok" THEN query.result.v
                                           ELSE Null]
    /\ QueryFrame

QueryNext ==
    \/ Query_Call
    \/ Query_Built
    \/ Query_Simulated
    \/ Query_Return

QuerySpec == Init /\ [][QueryNext]_vars

(***************************************************************************)
(* Two runs of prepareStartGame that differ in Player 2's points only.     *)
(***************************************************************************)
PairFrame ==
    UNCHANGED <<ledgerVars, aVars, bVars, fault, sess, query, create, publish, cargo>>

\* Both runs are called: the same sessionId, player1 and player1Points, and
\* each run's own player2Points.
Pair_Call ==
    /\ \A r \in Runs : pair[r].pc = "idle"
    /\ \E sid \in SessionIds, p1 \in Player1Choices, pts1 \in Points,
          q \in [Runs -> PairPoints2] :
          pair' = [r \in Runs |->
                     [NoRun EXCEPT !.pc = "building",
                                   !.args = [session_id |-> sid, player1 |-> p1,
                                             player2 |-> SessPlayer2,
                                             player1_points |-> pts1,
                                             player2_points |-> q[r]]]]
    /\ PairFrame

\* start_game of run r resolved: the network lists a credential per entry.
Pair_Simulated(r) ==
    /\ pair[r].pc = "building"
    /\ \E sh \in Shapes :
          pair' = [pair EXCEPT ![r] = [@ EXCEPT !.pc = "simulated",
                                               !.auth = ShapeEntries(sh, pair[r].args)]]
    /\ PairFrame

\* The locator loop and the null check of run r.
Pair_Locate(r) ==
    /\ pair[r].pc = "simulated"
    /\ LET i == LocateScan(pair[r].auth, pair[r].args.player1).found
       IN  pair' = [pair EXCEPT ![r] =
                      IF i = 0
                        THEN [@ EXCEPT !.pc = "error", !.err = "NotFound", !.auth = <<>>]
                        ELSE [@ EXCEPT !.pc = "ttl", !.found = i]]
    /\ PairFrame

\* The TTL and authorizeEntry of run r, and the returned XDR.
Pair_Export(r) ==
    /\ pair[r].pc = "ttl"
    /\ pair' = [pair EXCEPT ![r] = [@ EXCEPT !.pc = "exported", !.auth = <<>>, !.found = 0,
                      !.artifact =
                          ToXDR(SignStep(pair[r].auth, pair[r].found, pair[r].args.player1,
                                         calculateValidUntilLedger(ledgerSeq,
                                             MULTI_SIG_AUTH_TTL_MINUTES)).signed)]]
    /\ PairFrame

PairNext ==
    \/ Pair_Call
    \/ \E r \in Runs : Pair_Simulated(r)
    \/ \E r \in Runs : Pair_Locate(r)
    \/ \E r \in Runs : Pair_Export(r)

PairSpec == Init /\ [][PairNext]_vars

(***************************************************************************)
(* The create script (bun run create <game-slug> [--force]).               *)
(***************************************************************************)
CreateFrame ==
    UNCHANGED <<ledgerVars, aVars, bVars, fault, sess, query, pair, publish, cargo>>

CreateExit(code) == create' = [create EXCEPT !.pc = "exited", !.exitCode = code]

\* The script is started on a command line, in a repository.
Create_Run ==
    /\ create.pc = "idle"
    /\ \E k \in CreateArgKinds, v \in BOOLEAN, f \in BOOLEAN, t \in BOOLEAN, u \in BOOLEAN,
          c \in DirStates, d \in DirStates :
          /\ (k # "slug") => (~v /\ ~f)
          /\ create' = [NoCreate EXCEPT !.pc = "args", !.args = k, !.validSlug = v,
                                        !.force = f, !.hasTemplate = t, !.hasStudio = u,
                                        !.contract0 = c, !.frontend0 = d,
                                        !.contract = c, !.frontend = d]
    /\ CreateFrame

\* No arguments or --help: usage, and exit.
Create_Args ==
    /\ create.pc = "args"
    /\ IF create.args = "none" THEN CreateExit(1)
       ELSE IF create.args = "help" THEN CreateExit(0)
       ELSE create' = [create EXCEPT !.pc = "slug"]
    /\ CreateFrame

\* isValidSlug(gameSlug)
Create_Slug ==
    /\ create.pc = "slug"
    /\ IF ~create.validSlug THEN CreateExit(1)
       ELSE create' = [create EXCEPT !.pc = "sources"]
    /\ CreateFrame

\* The template contract and the studio frontend must exist.
Create_Sources ==
    /\ create.pc = "sources"
    /\ IF ~create.hasTemplate \/ ~create.hasStudio THEN CreateExit(1)
       ELSE create' = [create EXCEPT !.pc = "contractTarget"]
    /\ CreateFrame

\* existsSync(newContractDir): exit without --force, rmSync with it.
Create_ContractTarget ==
    /\ create.pc = "contractTarget"
    /\ IF create.contract # "absent"
         THEN IF ~create.force THEN CreateExit(1)
              ELSE create' = [create EXCEPT !.pc = "frontendTarget", !.contract = "absent",
                                            !.removed = @ \cup {"contract"}]
         ELSE create' = [create EXCEPT !.pc = "frontendTarget"]
    /\ CreateFrame

\* The frontend check without its test of --force: the directory is removed.
Create_FrontendTarget_Overwrite ==
    /\ create.pc = "frontendTarget"
    /\ IF create.frontend # "absent"
         THEN create' = [create EXCEPT !.pc = "copyContract", !.frontend = "absent",
                                       !.removed = @ \cup {"frontend"}]
         ELSE create' = [create EXCEPT !.pc = "copyContract"]
    /\ CreateFrame

\* existsSync(newFrontendDir): exit without --force, rmSync with it.
Create_FrontendTarget ==
    /\ create.pc = "frontendTarget"
    /\ IF create.frontend # "absent"
         THEN IF ~create.force THEN CreateExit(1)
              ELSE create' = [create EXCEPT !.pc = "copyContract", !.frontend = "absent",
                                            !.removed = @ \cup {"frontend"}]
         ELSE create' = [create EXCEPT !.pc = "copyContract"]
    /\ CreateFrame

\* copyDir(templateContractDir, newContractDir) and the renaming in its files.
Create_CopyContract ==
    /\ create.pc = "copyContract"
    /\ create' = [create EXCEPT !.pc = "register", !.contract = "new",
                                !.written = @ \cup {"contract"}]
    /\ CreateFrame

\* updateWorkspaceMembers: the contract is added to Cargo.toml.
Create_Register ==
    /\ create.pc = "register"
    /\ create' = [create EXCEPT !.pc = "copyFrontend", !.written = @ \cup {"Cargo.toml"}]
    /\ CreateFrame

\* copyDir(studioFrontendDir, newFrontendDir) and the files written into it.
Create_CopyFrontend ==
    /\ create.pc = "copyFrontend"
    /\ create' = [create EXCEPT !.pc = "done", !.frontend = "new",
                                !.written = @ \cup {"frontend"}]
    /\ CreateFrame

CreateNext ==
    \/ Create_Run
    \/ Create_Args
    \/ Create_Slug
    \/ Create_Sources
    \/ Create_ContractTarget
    \/ Create_FrontendTarget
    \/ Create_CopyContract
    \/ Create_Register
    \/ Create_CopyFrontend

CreateSpec == Init /\ [][CreateNext]_vars

(***************************************************************************)
(* The publish script (bun run publish <game-slug> [--out <dir>] [--force]) *)
(* and its copyDir.  A path is the sequence of its names below the common  *)
(* ancestor of the studio and the output; a file system is a set of        *)
(* entries, each a path and whether it is a directory.                     *)
(***************************************************************************)
PublishFrame ==
    UNCHANGED <<ledgerVars, aVars, bVars, fault, sess, query, create, pair, cargo>>

MaxPath == 8

Dir(p) == [p |-> p, d |-> TRUE]
File(p) == [p |-> p, d |-> FALSE]
IsPrefix(a, b) == Len(a) <= Len(b) /\ SubSeq(b, 1, Len(a)) = a
EntryName(e) == e.p[Len(e.p)]
Exists(fs, p) == \E e \in fs : e.p = p

\* readdirSync(dir, { withFileTypes: true })
ReadDir(fs, dir) == {e \in fs : Len(e.p) = Len(dir) + 1 /\ IsPrefix(dir, e.p)}

\* mkdirSync(p, { recursive: true })
MkdirP(fs, p) == fs \cup {Dir(SubSeq(p, 1, k)) : k \in 1..Len(p)}

\* rmSync(p, { recursive: true, force: true })
RmTree(fs, p) == {e \in fs : ~IsPrefix(p, e.p)}

SkipNames == {"node_modules", "dist", "dist-node", ".turbo", ".git"}

shouldSkip(name) == name \in SkipNames \/ name = "tsconfig.tsbuildinfo"

FrontendRoot == <<"fe">>
GameDir == <<"fe", "src", "games", "g">>
DefaultOut == <<"g">>

\* The frontend trees a run may find.
Trees ==
    {{Dir(<<"fe">>), File(<<"fe", "package.json">>), File(<<"fe", "tsconfig.tsbuildinfo">>),
      Dir(<<"fe", "node_modules">>), File(<<"fe", "node_modules", "dep.js">>),
      Dir(<<"fe", "src">>), Dir(<<"fe", "src", "games">>), Dir(GameDir),
      File(GameDir \o <<"G.tsx">>)},
     {Dir(<<"fe">>), Dir(<<"fe", ".git">>), File(<<"fe", ".git", "HEAD">>),
      Dir(<<"fe", "src">>), Dir(<<"fe", "src", "games">>), Dir(GameDir),
      File(GameDir \o <<"G.tsx">>), Dir(GameDir \o <<"dist">>),
      File(GameDir \o <<"dist", "a.js">>)},
     {Dir(<<"fe">>), Dir(<<"fe", "src">>), Dir(<<"fe", "src", "games">>)},
     {Dir(<<"fe">>)}}

\* The output directory: the default, or the directory --out names.
OutChoices == {DefaultOut, <<"fe", "pub">>, <<"fe", "dist">>, <<"fe", "src", "pub">>}

PublishArgKinds == {"none", "help", "slug"}

PublishExit(code) == publish' = [publish EXCEPT !.pc = "exited", !.exitCode = code]

\* copyDir(src, dest) entered: the destination is made when it is missing and
\* the source is listed.  A path longer than the system allows makes mkdirSync
\* throw.
CopyEnter(fs, src, dest) ==
    IF ~Exists(fs, dest) /\ Len(dest) > MaxPath
      THEN [ok |-> FALSE, fs |-> fs, frame |-> [src |-> src, dest |-> dest, todo |-> {}]]
      ELSE LET made == IF Exists(fs, dest) THEN fs ELSE MkdirP(fs, dest)
           IN  [ok |-> TRUE, fs |-> made,
                frame |-> [src |-> src, dest |-> dest, todo |-> ReadDir(made, src)]]

\* The script is started on a command line, in a repository.
Publish_Run ==
    /\ publish.pc = "idle"
    /\ \E k \in PublishArgKinds, f \in BOOLEAN, t \in Trees, o \in OutChoices, x \in BOOLEAN :
          /\ (k # "slug") => (~f /\ o = DefaultOut)
          /\ LET fs == IF x THEN MkdirP(t, o) \cup {File(o \o <<"old.txt">>)} ELSE t
             IN  publish' = [NoPublish EXCEPT !.pc = "args", !.args = k, !.force = f,
                                              !.out = o, !.fs0 = fs, !.fs = fs]
    /\ PublishFrame

\* No arguments or --help: usage, and exit.
Publish_Args ==
    /\ publish.pc = "args"
    /\ IF publish.args = "none" THEN PublishExit(1)
       ELSE IF publish.args = "help" THEN PublishExit(0)
       ELSE publish' = [publish EXCEPT !.pc = "game"]
    /\ PublishFrame

\* existsSync(gameDir)
Publish_Game ==
    /\ publish.pc = "game"
    /\ IF ~Exists(publish.fs, GameDir) THEN PublishExit(1)
       ELSE publish' = [publish EXCEPT !.pc = "output"]
    /\ PublishFrame

\* The output check without its test of --force: the directory is removed.
Publish_Output_Overwrite ==
    /\ publish.pc = "output"
    /\ LET cleared == IF Exists(publish.fs, publish.out)
                        THEN RmTree(publish.fs, publish.out) ELSE publish.fs
           c == CopyEnter(cleared, FrontendRoot, publish.out)
       IN  publish' =
              [publish EXCEPT !.pc = IF c.ok THEN "copying" ELSE "crashed",
                              !.fs = c.fs,
                              !.removed = IF Exists(publish.fs, publish.out)
                                            THEN @ \cup {publish.out} ELSE @,
                              !.stack = IF c.ok THEN <<c.frame>> ELSE <<>>]
    /\ PublishFrame

\* existsSync(outputDir): exit without --force, rmSync with it; then
\* copyDir(frontendRoot, outputDir) is called.
Publish_Output ==
    /\ publish.pc = "output"
    /\ IF Exists(publish.fs, publish.out) /\ ~publish.force
         THEN PublishExit(1)
         ELSE LET cleared == IF Exists(publish.fs, publish.out)
                               THEN RmTree(publish.fs, publish.out) ELSE publish.fs
                  c == CopyEnter(cleared, FrontendRoot, publish.out)
              IN  publish' =
                     [publish EXCEPT !.pc = IF c.ok THEN "copying" ELSE "crashed",
                                     !.fs = c.fs,
                                     !.removed = IF Exists(publish.fs, publish.out)
                                                   THEN @ \cup {publish.out} ELSE @,
                                     !.stack = IF c.ok THEN <<c.frame>> ELSE <<>>]
    /\ PublishFrame

Top == publish.stack[Len(publish.stack)]

\* One turn of copyDir's loop: the entry is skipped, copied as a file, or
\* copied as a directory by a recursive call.
Copy_Entry ==
    /\ publish.pc = "copying"
    /\ Top.todo # {}
    /\ \E e \in Top.todo :
          LET n == Len(publish.stack)
              rest == [publish.stack EXCEPT ![n].todo = @ \ {e}]
              destPath == Top.dest \o <<EntryName(e)>>
          IN  IF shouldSkip(EntryName(e))
                THEN publish' = [publish EXCEPT !.stack = rest]
                ELSE IF e.d
                THEN LET c == CopyEnter(publish.fs, e.p, destPath)
                     IN  publish' =
                            [publish EXCEPT !.pc = IF c.ok THEN "copying" ELSE "crashed",
                                            !.fs = c.fs,
                                            !.copied = IF c.ok THEN @ \cup {e.p} ELSE @,
                                            !.stack = IF c.ok THEN Append(rest, c.frame)
                                                      ELSE rest]
                ELSE IF Len(destPath) > MaxPath
                THEN publish' = [publish EXCEPT !.pc = "crashed", !.stack = rest]
                ELSE publish' = [publish EXCEPT !.fs = @ \cup {File(destPath)},
                                                !.copied = @ \cup {e.p},
                                                !.stack = rest]
    /\ PublishFrame

\* copyDir's loop is over: the call returns; the outermost call returns to
\* the script.
Copy_Return ==
    /\ publish.pc = "copying"
    /\ Top.todo = {}
    /\ publish' = [publish EXCEPT
                      !.stack = SubSeq(@, 1, Len(@) - 1),
                      !.pc = IF Len(publish.stack) = 1 THEN "copied" ELSE "copying"]
    /\ PublishFrame

PublishNext ==
    \/ Publish_Run
    \/ Publish_Args
    \/ Publish_Game
    \/ Publish_Output
    \/ Copy_Entry
    \/ Copy_Return

PublishSpec == Init /\ [][PublishNext]_vars

\* The script runs on: a step that can be taken is taken.
PublishFairSpec == PublishSpec /\ WF_vars(PublishNext)

(***************************************************************************)
(* updateWorkspaceMembers of the create script.  Cargo.toml is a sequence  *)
(* of pieces of text, each a kind and, for a member, its slug:             *)
(*   "line"     two spaces, "contracts/<slug>" in quotes, a comma          *)
(*   "bare"     two spaces, "contracts/<slug>" in quotes                   *)
(*   "item"     "contracts/<slug>" in quotes                               *)
(*   "sep"      a comma and a space                                        *)
(*   "members"  members = [                                                *)
(*   "close"    ]                                                          *)
(*   "nl"       a line break                                               *)
(*   "comment"  two spaces and a # comment                                 *)
(*   "other"    any other text without brackets                            *)
(***************************************************************************)
CargoFrame ==
    UNCHANGED <<ledgerVars, aVars, bVars, fault, sess, query, create, pair, publish>>

MaxRuns == 3

Piece(k) == [k |-> k, x |-> ""]
Member(k, slug) == [k |-> k, x |-> slug]
NL == Piece("nl")

\* const memberLine = `  "contracts/${gameSlug}",`
memberLine(gameSlug) == Member("line", gameSlug)

RECURSIVE Concat(_)
Concat(ss) == IF ss = <<>> THEN <<>> ELSE Head(ss) \o Concat(Tail(ss))

\* cargoText.includes(memberLine)
Includes(cargoText, piece) == \E i \in 1..Len(cargoText) : cargoText[i] = piece

\* cargoText.match(/members\s*=\s*\[[\s\S]*?\]/m): where the first match
\* starts and where its closing bracket is; 0 when there is no match.
MatchStart(cargoText) ==
    IF \E i \in 1..Len(cargoText) : cargoText[i].k = "members"
      THEN CHOOSE i \in 1..Len(cargoText) :
              /\ cargoText[i].k = "members"
              /\ \A j \in 1..(i - 1) : cargoText[j].k # "members"
      ELSE 0

MatchEnd(cargoText) ==
    LET i == MatchStart(cargoText)
        after == {j \in 1..Len(cargoText) : j > i /\ cargoText[j].k = "close"}
    IN  IF i = 0 \/ after = {} THEN 0
        ELSE CHOOSE j \in after : \A h \in after : j <= h

\* updateWorkspaceMembers(repoRoot, gameSlug): the text it leaves in
\* Cargo.toml, and whether it threw.
updateWorkspaceMembers(cargoText, gameSlug) ==
    IF Includes(cargoText, memberLine(gameSlug))
      THEN [text |-> cargoText, threw |-> FALSE]
      ELSE LET j == MatchEnd(cargoText)
           IN  IF j = 0 THEN [text |-> cargoText, threw |-> TRUE]
               ELSE [text |-> SubSeq(cargoText, 1, j - 1) \o <<memberLine(gameSlug), NL>>
                                 \o SubSeq(cargoText, j, Len(cargoText)),
                     threw |-> FALSE]

\* The manifests a run may find: the members one per line with a comma after
\* each (as the script writes them), the last one followed by a comment, the
\* last one without its comma, the members on one line, or no members list.
Layouts == {"block", "commented", "bare", "inline", "none"}
MemberLists == {<<>>, <<"a">>, <<"g">>, <<"a", "g">>, <<"g", "a">>}
CargoSlugs == {"g", "b"}

MembersBlock(layout, ms) ==
    LET n == Len(ms)
    IN  CASE layout = "none" -> <<>>
          [] layout = "inline" ->
               <<Piece("members")>>
               \o Concat([i \in 1..n |->
                            IF i < n THEN <<Member("item", ms[i]), Piece("sep")>>
                            ELSE <<Member("item", ms[i])>>])
               \o <<Piece("close"), NL>>
          [] OTHER ->
               <<Piece("members"), NL>>
               \o Concat([i \in 1..n |->
                            IF i < n \/ layout = "block" THEN <<Member("line", ms[i]), NL>>
                            ELSE IF layout = "commented"
                            THEN <<Member("line", ms[i]), Piece("comment"), NL>>
                            ELSE <<Member("bare", ms[i]), NL>>])
               \o <<Piece("close"), NL>>

Manifest(layout, ms, tail) ==
    <<Piece("other"), NL>> \o MembersBlock(layout, ms)
    \o (IF tail THEN <<Piece("other"), NL>> ELSE <<>>)

\* The create script is about to register a game in some Cargo.toml.
Cargo_Open ==
    /\ cargo.pc = "idle"
    /\ \E layout \in Layouts, ms \in MemberLists, tail \in BOOLEAN, slug \in CargoSlugs :
          cargo' = [NoCargo EXCEPT !.pc = "open", !.slug = slug,
                                   !.text0 = Manifest(layout, ms, tail),
                                   !.text = Manifest(layout, ms, tail)]
    /\ CargoFrame

\* One run of updateWorkspaceMembers for the slug.
Cargo_Run ==
    /\ cargo.pc = "open"
    /\ cargo.runs < MaxRuns
    /\ ~cargo.threw
    /\ LET r == updateWorkspaceMembers(cargo.text, cargo.slug)
       IN  cargo' = [cargo EXCEPT !.text = r.text, !.threw = r.threw, !.runs = @ + 1]
    /\ CargoFrame

CargoNext ==
    \/ Cargo_Open
    \/ Cargo_Run

CargoSpec == Init /\ [][CargoNext]_vars

\* The state of the assembler's handshake, read off the importer's position.
HandshakeState ==
    CASE pcB \in {"idle", "building"} -> "Idle"
      [] pcB = "built" -> "LocalBuilt"
      [] pcB = "merged" -> "RemoteImported"
      [] pcB \in {"signed", "resimulated"} -> "LocallySigned"
      [] pcB = "submitted" -> "Submitted"
      [] pcB = "confirmed" -> "Confirmed"
      [] pcB = "failed" -> "Failed"

(***************************************************************************)
(* Properties                                                              *)
(***************************************************************************)
\* The native value an ScVal stands for.
ScValNative(sv) == IF sv.t = "u32" THEN sv.lo ELSE sv.hi * Half + sv.lo

\* Indices of the entries with address credentials for address x.
Matches(l, x) == {i \in 1..Len(l) : l[i].cred = CredAddress /\ l[i].address = x}

\* C1: whenever prepareStartGame returns the base64 encoding of its signed
\* entry E, parseAuthEntry of that string succeeds and gives the signer
\* address, the session id and the player-1 points of E.
C1_RoundTrip ==
    [][(pcA = "signing" /\ pcA' = "done") =>
         LET E == authorizeEntry(authEntries[player1AuthEntry], call.args.player1,
                                 validUntilLedgerSeq)
             r == parseAuthEntry(artifact')
         IN  /\ r.ok
             /\ FromXDR(artifact').entry.fn = E.fn
             /\ r.player1 = E.address
             /\ r.sessionId = ScValNative(E.args[1])
             /\ r.player1Points = ScValNative(E.args[2])]_vars

\* An artifact that decodes to an entry of another function or with another
\* number of arguments than start_game's two.
BadShape(x) ==
    /\ FromXDR(x).ok
    /\ FromXDR(x).entry.fn # "start_game" \/ Len(FromXDR(x).entry.args) # EXPECTED_ARGS

\* C2: an imported artifact of the wrong function name or argument count
\* makes parseAuthEntry fail, and importAndSignAuthEntry ends with that error
\* with no parameters recovered, no bundle built, nothing signed or submitted.
C2_ShapeRejection ==
    (imported # <<>> /\ BadShape(imported)) =>
        /\ ~parseAuthEntry(imported).ok
        /\ errB \in {"FunctionMismatch", "ArgumentShapeMismatch", "UnsupportedCredential"}
        /\ FromXDR(imported).entry.cred = CredAddress =>
              errB \in {"FunctionMismatch", "ArgumentShapeMismatch"}
        /\ pcB = "idle"
        /\ gameParams = NoParams
        /\ bundle = NoBundle
        /\ submits = 0
        /\ games = gamesAtStart

C2_Witness ==
    /\ imported # <<>>
    /\ BadShape(imported)
    /\ FromXDR(imported).entry.cred = CredAddress
    /\ FromXDR(imported).entry.fn = "start_game"
    /\ errB = "ArgumentShapeMismatch"

\* C3: when the simulated list holds exactly one entry with address
\* credentials for player1, the locator loop ends with that entry selected
\* and prepareStartGame goes on with it.
C3_LocatorDeterminism ==
    [][(pcA = "simulated" /\ pcA' # pcA
          /\ Cardinality(Matches(authEntries, call.args.player1)) = 1) =>
         (pcA' = "ttl" /\ player1AuthEntry' \in Matches(authEntries, call.args.player1)
          /\ authEntries' = authEntries)]_vars

C3_Witness ==
    /\ pcA = "ttl"
    /\ Cardinality(Matches(authEntries, call.args.player1)) = 1
    /\ Len(authEntries) >= 2
    /\ player1AuthEntry = 1
    /\ authEntries[2].cred = CredAddress

\* C4: when no entry of the simulated list has address credentials for
\* player1, prepareStartGame throws the not-found error, and neither
\* calculateValidUntilLedger nor the wallet has been or is ever called.
C4_LocatorFailure ==
    /\ [][(pcA = "simulated" /\ pcA' # pcA
             /\ Matches(authEntries, call.args.player1) = {}) =>
            (pcA' = "error" /\ errA' = "NotFound" /\ ttlCalls' = 0 /\ signCalls' = 0
             /\ artifact' = <<>>)]_vars
    /\ [](errA = "NotFound" => (pcA = "error" /\ ttlCalls = 0 /\ signCalls = 0 /\ artifact = <<>>))

C4_Witness ==
    /\ errA = "NotFound"
    /\ pcA = "error"
    /\ ttlCalls = 0
    /\ signCalls = 0

\* C5: the entry the locator selected is the match of smallest index, also
\* when several entries match.
C5_FirstMatchWins ==
    pcA \in {"ttl", "signing"} =>
        /\ player1AuthEntry \in Matches(authEntries, call.args.player1)
        /\ \A j \in Matches(authEntries, call.args.player1) : player1AuthEntry <= j

C5_Witness ==
    /\ pcA = "ttl"
    /\ Cardinality(Matches(authEntries, call.args.player1)) >= 2
    /\ player1AuthEntry = 1

Rank(h) ==
    CASE h = "Idle" -> 0
      [] h = "LocalBuilt" -> 1
      [] h = "RemoteImported" -> 2
      [] h = "LocallySigned" -> 3
      [] h = "Submitted" -> 4
      [] h \in {"Confirmed", "Failed"} -> 5

\* C6: within one attempt the handshake state stays or moves to the next
\* state of Idle, LocalBuilt, RemoteImported, LocallySigned, Submitted,
\* Confirmed|Failed; it never skips a state and never goes back.
C6_StateOrder ==
    [][attempt' = attempt =>
         (HandshakeState' = HandshakeState
          \/ Rank(HandshakeState') = Rank(HandshakeState) + 1)]_vars

C6_Witness ==
    /\ HandshakeState = "Confirmed"
    /\ submits = 1
    /\ attempt = 1

ImportedEntry == FromXDR(imported).entry

\* C7: when the rebuilt bundle has no stub for the signer of the imported
\* entry, the merge fails with AddressMismatch and the bundle stays as built:
\* no entry replaced, nothing signed, nothing submitted.
C7_MergeAddressSafety ==
    /\ [][(pcB = "built" /\ errB = "none"
             /\ Matches(bundle.auth, ImportedEntry.address) = {}
             /\ <<pcB, errB, bundle>>' # <<pcB, errB, bundle>>) =>
            (errB' = "AddressMismatch" /\ pcB' = "built" /\ bundle' = bundle
             /\ submits' = 0 /\ games' = games)]_vars
    /\ [](errB = "AddressMismatch" =>
            /\ pcB = "built"
            /\ \A i \in 1..Len(bundle.auth) : ~IsSigned(bundle.auth[i])
            /\ submits = 0
            /\ games = gamesAtStart)

C7_Witness ==
    /\ errB = "AddressMismatch"
    /\ pcB = "built"
    /\ Len(bundle.auth) >= 1
    /\ Matches(bundle.auth, ImportedEntry.address) = {}
    /\ imported = artifact

\* C8: when every call runs on and no step of either party fails (no
\* simulation error, no wallet refusal, no rejected artifact, no rejected
\* submission), the handshake eventually reaches Confirmed.
C8_EndToEnd == <>(HandshakeState = "Confirmed" \/ fault)

C8_Witness ==
    /\ HandshakeState = "Confirmed"
    /\ ~fault
    /\ imported = artifact
    /\ attempt = 1
    /\ bundle.args \in games

\* C9: a submission the ledger answers at a height past the expiry of the
\* imported entry fails with SubmissionError, ends the handshake in Failed
\* and leaves the contract's sessions as they were when the attempt began.
C9_ExpiredArtifact ==
    [][(pcB = "submitted" /\ pcB' # pcB /\ ledgerSeq > ImportedEntry.expiry) =>
         (pcB' = "failed" /\ errB' = "SubmissionError" /\ games' = gamesAtStart)]_vars

C9_Witness ==
    /\ pcB = "failed"
    /\ errB = "SubmissionError"
    /\ imported = artifact
    /\ ledgerSeq > ImportedEntry.expiry
    /\ games = gamesAtStart
    /\ \A i \in 1..Len(bundle.auth) : EntryValid(bundle.auth[i], bundle.args, ImportedEntry.expiry)

\* C10: a bundle is handed over for submission at most once per attempt, and
\* a handshake in Confirmed or Failed takes no step but the start of a new
\* attempt, which begins at Idle with no bundle.
C10_NoRetry ==
    /\ [](submits <= 1)
    /\ [][(pcB \in {"confirmed", "failed"}) =>
            ((bVars' = bVars /\ games' = games)
             \/ (attempt' = attempt + 1 /\ pcB' = "idle" /\ bundle' = NoBundle
                   /\ imported' = <<>> /\ submits' = 0 /\ games' = games))]_vars

C10_Witness ==
    /\ attempt = 2
    /\ pcB = "failed"
    /\ submits = 1
    /\ gamesAtStart = {}

\* C11: when the signer capability is absent (checked before authorizeEntry),
\* or the wallet returns an error result or throws while authorizeEntry signs
\* Player 1's entry, prepareStartGame ends in an error, exports no artifact
\* and keeps no entry, signed or not.
C11_SigningRejection ==
    [][/\ (pcA = "ttl" /\ pcA' # "ttl" /\ call.signer = "absent") =>
             (pcA' = "error" /\ errA' = "SigningRejected" /\ signCalls' = signCalls)
       /\ (pcA = "signing" /\ pcA' # "signing" /\ call.signer \in {"error", "throws"}) =>
             (pcA' = "error" /\ errA' \in {"SigningRejected", "WalletError"})
       /\ (pcA' = "error") => (artifact' = <<>> /\ authEntries' = <<>> /\ errA' # "none")]_vars

C11_Witness == pcA = "error" /\ errA = "SigningRejected" /\ signCalls = 1 /\ artifact = <<>>

\* C12: of two durations d1 < d2 passed as authTtlMinutes at the same ledger
\* height, the expiry prepareStartGame attaches for d1 is at most the one it
\* attaches for d2.
C12_MonotonicExpiry ==
    [][(pcA = "ttl" /\ pcA' = "signing" /\ call.authTtlMinutes.given) =>
          \A t2 \in TtlChoices :
             (t2.given /\ call.authTtlMinutes.v < t2.v) =>
                validUntilLedgerSeq' <= calculateValidUntilLedger(ledgerSeq, TtlMinutes(t2))]_vars


\* The states of a handshake that precede Submitted.
BeforeSubmitted == HandshakeState \in {"Idle", "LocalBuilt", "RemoteImported", "LocallySigned"}

\* C13: in every state of a handshake before Submitted, whether its steps
\* succeeded, failed or were abandoned, the ledger's games are those it had
\* when the handshake started, and no step other than the submission that
\* finalizeStartGame sent changes them.
C13_NoTrace ==
    [][/\ (games' # games) => (pcB = "submitted" /\ pcB' = "confirmed")
       /\ BeforeSubmitted' => (games' = gamesAtStart')]_vars

C13_Witness ==
    /\ HandshakeState = "LocallySigned"
    /\ errB # "none"
    /\ games # {}
    /\ games = gamesAtStart


\* C14: with the calls of two sessions interleaved in any order on the one
\* service instance, each session's error, its exported artifact and its
\* signed bundle are those of the same session run alone, every entry of a
\* session's auth list and bundle is for that session's identifier, and a
\* step of one session leaves the other session's call as it was.
C14_SessionIndependence ==
    [][\A s \in SessionIds :
          /\ (sess'[s].pc = "error") => (sess'[s].err = Solo(s, sess'[s].in).err)
          /\ (sess'[s].pc \in {"exported", "rebuilt", "signed"}) =>
                (sess'[s].artifact = Solo(s, sess'[s].in).artifact)
          /\ (sess'[s].pc = "signed") => (sess'[s].bundle = Solo(s, sess'[s].in).bundle)
          /\ \A i \in 1..Len(sess'[s].auth) : sess'[s].auth[i].args[1] = ScU32(s)
          /\ \A i \in 1..Len(sess'[s].bundle.auth) : sess'[s].bundle.auth[i].args[1] = ScU32(s)
          /\ (sess'[s] # sess[s]) => (\A t \in SessionIds \ {s} : sess'[t] = sess[t])]_vars

C14_Witness ==
    /\ sess[7].pc = "signed"
    /\ sess[42].pc = "simulated"
    /\ sess[7].bundle.args.session_id = 7
    /\ sess[7].in.shapeA = sess[42].in.shapeA


\* C15: no error raised inside a step of the handshake is silently
\* discarded: whenever a step has gone on, no error was thrown and dropped
\* in it, and a step that failed reports an error.
C15_NoSwallowedErrors ==
    /\ caught = 0
    /\ (pcA = "error") => (errA # "none")
    /\ (pcB = "failed") => (errB # "none")


\* prepareStartGame is between its call and its return or throw.
InFlightA == pcA \in {"building", "simulated", "ttl", "signing"}

C17_SameFeePayer ==
    /\ InFlightA => (sourceA = call.args.player2 /\ sourceA # call.args.player1)
    /\ (bundle # NoBundle) =>
          (bundle.source = bundle.args.player2 /\ bundle.source # bundle.args.player1)

\* C17 as amended: both bundles have Player 2 as source, and Player 1 is the
\* source of neither unless Player 1 and Player 2 are the same address.
C17_SameFeePayerUnlessSelfPlay ==
    /\ InFlightA =>
          /\ sourceA = call.args.player2
          /\ (call.args.player1 # call.args.player2) => (sourceA # call.args.player1)
    /\ (bundle # NoBundle) =>
          /\ bundle.source = bundle.args.player2
          /\ (bundle.args.player1 # bundle.args.player2) =>
                (bundle.source # bundle.args.player1)

C17_Witness ==
    /\ pcB = "signed"
    /\ bundle.source = "GB"
    /\ bundle.args.player1 = "GA"
    /\ bundle.args.player2 = "GB"


\* C18: authorizeEntry returns a new signed entry and leaves the located stub
\* as it was: once prepareStartGame has returned, the exported entry carries
\* a signature and the expiry, and the stub in the simulated transaction has
\* neither.
C18_CopyOnSign ==
    /\ stubIntact
    /\ (pcA = "done") =>
          /\ IsSigned(FromXDR(artifact).entry)
          /\ FromXDR(artifact).entry.expiry > 0

C18_Witness == pcA = "done" /\ IsSigned(FromXDR(artifact).entry) /\ stubIntact


\* C19: the locator loop, whether it finds an entry or ends in NotFound,
\* leaves the auth list, its order and every entry as they were.
C19_LocatorFrame ==
    [][(pcA = "simulated" /\ pcA' # "simulated") =>
          /\ listIntact'
          /\ (pcA' = "ttl") => (authEntries' = authEntries)
          /\ (pcA' = "error") => (errA' = "NotFound")]_vars

C19_Witness ==
    /\ pcA = "ttl"
    /\ Len(authEntries) >= 2
    /\ authEntries[1] # authEntries[2]
    /\ player1AuthEntry = 2
    /\ listIntact

\* Position of entry i among the entries with address credentials.
AddressRank(auth, i) == Cardinality({j \in 1..i : auth[j].cred = CredAddress})

\* The list without its entries that carry source-account credentials.
RECURSIVE WithoutSource(_)
WithoutSource(auth) ==
    IF auth = <<>> THEN <<>>
    ELSE IF Head(auth).cred = CredSource THEN WithoutSource(Tail(auth))
    ELSE <<Head(auth)>> \o WithoutSource(Tail(auth))

\* C20: the locator never returns an entry with source-account credentials,
\* and what it returns, an entry or NotFound, is what it returns from the
\* same list with those entries taken out.
C20_SkipsSourceEntries ==
    [][(pcA = "simulated" /\ pcA' # "simulated") =>
          LET w == WithoutSource(authEntries)
              k == Locate(w, call.args.player1)
          IN  /\ (pcA' = "error") => (k = 0)
              /\ (pcA' = "ttl") =>
                    /\ authEntries[player1AuthEntry'].cred = CredAddress
                    /\ k = AddressRank(authEntries, player1AuthEntry')
                    /\ w[k] = authEntries[player1AuthEntry']]_vars

C20_Witness ==
    /\ pcA = "ttl"
    /\ authEntries[1].cred = CredSource
    /\ player1AuthEntry = 2


\* Entries of a list that carry address credentials for address a.
EntriesFor(auth, a) == {i \in 1..Len(auth) : auth[i].cred = CredAddress /\ auth[i].address = a}

\* One entry for a signer, none being allowed only to the transaction source,
\* which may authorize with source-account credentials.
OneEntryFor(auth, a, source) ==
    \/ Cardinality(EntriesFor(auth, a)) = 1
    \/ a = source /\ EntriesFor(auth, a) = {}

Merged == pcB \in {"merged", "signed", "resimulated", "submitted", "confirmed", "failed"}

\* C22: the entry prepareStartGame exports decodes to the entry authorizeEntry
\* signed, the exported artifact never changes, and once the merge has put a
\* signed imported entry into the bundle, that entry stays field for field
\* what was imported through local signing, re-simulation and submission.
C22_SignedEntryImmutable ==
    [][/\ (pcA = "signing" /\ pcA' = "done") =>
             (FromXDR(artifact').entry =
                 authorizeEntry(authEntries[player1AuthEntry], call.args.player1,
                                validUntilLedgerSeq))
       /\ (artifact # <<>>) => (artifact' = artifact)
       /\ (Merged' /\ IsSigned(FromXDR(imported').entry)) =>
             (bundle'.auth[Locate(bundle'.auth, FromXDR(imported').entry.address)] =
                 FromXDR(imported').entry)]_vars

C22_Witness ==
    /\ pcB = "submitted"
    /\ imported = artifact
    /\ bundle.auth[Locate(bundle.auth, ImportedEntry.address)] = ImportedEntry
    /\ ImportedEntry.address = callB.player2


\* C23: an imported artifact that decodes to an entry without address
\* credentials makes parseAuthEntry fail with UnsupportedCredential, whatever
\* its function name and arguments are, and importAndSignAuthEntry keeps no
\* decoded parameters and builds nothing.
C23_UnsupportedCredential ==
    (imported # <<>> /\ FromXDR(imported).ok /\ ImportedEntry.cred # CredAddress) =>
        /\ errB = "UnsupportedCredential"
        /\ gameParams = NoParams
        /\ pcB = "idle"
        /\ bundle = NoBundle

C23_Witness ==
    /\ FromXDR(imported).ok
    /\ ImportedEntry.cred = CredSource
    /\ ImportedEntry.fn = "end_game"
    /\ errB = "UnsupportedCredential"


\* C24: a handshake that imported the exported artifact does not reach
\* Confirmed when an earlier handshake had imported the same artifact.
C24_ConsumedOnce == (pcB = "confirmed" /\ imported = artifact) => ~usedBefore


\* C25: a call of getGame or getHandValue never ends in a throw: it returns
\* the unwrapped value when the simulated result is Ok, and null when the
\* result is not Ok or when building or simulating the query raised.
C25_QueryNeverThrows ==
    /\ query.pc \in {"idle", "building", "simulating", "simulated", "returned"}
    /\ (query.pc = "returned") =>
          /\ (query.raised = "none" /\ query.result.kind = "ok") =>
                (query.returned = query.result.v)
          /\ (query.raised # "none" \/ query.result.kind # "ok") => (query.returned = Null)
    /\ (query.raised # "none") => (query.pc = "returned")

C25_Witness ==
    /\ query.method = "getHandValue"
    /\ query.pc = "returned"
    /\ query.raised = "simulate"
    /\ query.returned = Null


\* C26: a run of the create script that is given a game slug without --force
\* (a run that names target directories; a usage request names none) and finds
\* the contract directory or the frontend directory in place removes nothing,
\* copies and writes nothing, and ends with a non-zero exit code; a directory
\* that held earlier work is only ever recreated under --force, and it was
\* removed before the copy started.
C26_NoOverwriteWithoutForce ==
    /\ (create.args = "slug" /\ ~create.force
           /\ (create.contract0 = "old" \/ create.frontend0 = "old")) =>
          /\ create.contract = create.contract0
          /\ create.frontend = create.frontend0
          /\ create.removed = {}
          /\ create.written = {}
          /\ create.pc \in {"args", "slug", "sources", "contractTarget", "frontendTarget",
                            "exited"}
          /\ (create.pc = "exited") => (create.exitCode # 0)
    /\ (create.pc \in {"copyContract", "register", "copyFrontend", "done"}) =>
          /\ (create.contract0 = "old") => (create.force /\ "contract" \in create.removed)
          /\ (create.frontend0 = "old") => (create.force /\ "frontend" \in create.removed)
          /\ create.contract # "old" /\ create.frontend # "old"

C26_Witness ==
    /\ create.pc = "exited"
    /\ create.exitCode = 1
    /\ ~create.force
    /\ create.contract0 = "absent"
    /\ create.frontend = "old"
    /\ create.written = {}


\* C27: once importAndSignAuthEntry has rebuilt the bundle from the artifact
\* prepareStartGame returned, the bundle's session_id, player1 and
\* player1_points are the values Party A passed (the ones Party A's signed
\* entry carries), and the arguments that entry attests are those of the
\* rebuilt bundle's stub for Player 1.
C27_RebuildEquivalence ==
    (/\ artifact # <<>>
     /\ imported = artifact
     /\ pcB \in {"built", "merged", "signed", "resimulated", "submitted", "confirmed"}) =>
        /\ bundle.args.session_id = ScValNative(ImportedEntry.args[1])
        /\ bundle.args.player1 = ImportedEntry.address
        /\ bundle.args.player1_points = ScValNative(ImportedEntry.args[2])
        /\ AttestedArgs(bundle.args.player1, bundle.args) = ImportedEntry.args

StepRank(pc) ==
    CASE pc = "idle" -> 0
      [] pc = "building" -> 1
      [] pc = "simulated" -> 2
      [] pc = "ttl" -> 3
      [] pc = "signing" -> 4
      [] pc = "done" -> 5
      [] OTHER -> 6

\* C30: prepareStartGame moves one step at a time through build-and-simulate,
\* locate, compute expiry, sign, encode, or ends in an error; the expiry is
\* asked for once and only with Player 1's entry located; the signer is
\* invoked at most once and only with the entry located and the expiry
\* computed; an artifact appears only as the result of a signing that
\* succeeded.
C30_SequentialPipeline ==
    [][(/\ (pcA' # pcA) =>
              (pcA # "error" /\ (pcA' = "error" \/ StepRank(pcA') = StepRank(pcA) + 1))
        /\ (ttlCalls' # ttlCalls) =>
              /\ pcA = "simulated" /\ pcA' = "ttl"
              /\ ttlCalls = 0 /\ ttlCalls' = 1
              /\ player1AuthEntry' # 0
              /\ authEntries'[player1AuthEntry'].address = call.args.player1
        /\ (signCalls' # signCalls) =>
              /\ pcA = "ttl" /\ pcA' = "signing"
              /\ signCalls = 0 /\ signCalls' = 1
              /\ ttlCalls = 1
              /\ player1AuthEntry # 0
              /\ validUntilLedgerSeq' =
                     calculateValidUntilLedger(ledgerSeq, TtlMinutes(call.authTtlMinutes))
        /\ (artifact' # artifact) =>
              /\ pcA = "signing" /\ pcA' = "done"
              /\ signCalls = 1
              /\ call.signer = "ok"
              /\ IsSigned(FromXDR(artifact').entry)
              /\ FromXDR(artifact').entry.expiry = validUntilLedgerSeq)]_vars

C30_Witness ==
    /\ pcA = "done"
    /\ artifact # <<>>
    /\ ttlCalls = 1
    /\ signCalls = 1
    /\ errA = "none"


BothExported == \A r \in Runs : pair[r].pc = "exported"

\* C31: two runs of prepareStartGame on the same sessionId, player1,
\* player1Points, expiry ledger and signer export entries with the same
\* signer address, invocation name and arguments, whatever player2Points
\* each run was given; the arguments are the session id and Player 1's
\* points.
C31_Player2PointsIndependence ==
    BothExported =>
        LET e1 == FromXDR(pair[1].artifact).entry
            e2 == FromXDR(pair[2].artifact).entry
        IN  /\ e1.address = e2.address
            /\ e1.fn = e2.fn
            /\ e1.args = e2.args
            /\ e1.address = pair[1].args.player1
            /\ e1.args = <<ScU32(pair[1].args.session_id),
                           ScI128(pair[1].args.player1_points)>>

C31_Witness ==
    /\ BothExported
    /\ pair[1].args.player2_points # pair[2].args.player2_points
    /\ pair[1].args.player1_points = 5
    /\ pair[1].artifact = pair[2].artifact


\* C32: a run of the publish script that is given a game slug (a usage
\* request names no game) and finds no game directory, or finds the output
\* directory in place without --force, ends with exit status 1 and has
\* removed, copied and written nothing; the output directory is removed only
\* if it existed and --force was given, and nothing else is ever removed.
C32_PublishRefusesOverwrite ==
    /\ (/\ publish.args = "slug"
        /\ \/ ~Exists(publish.fs0, GameDir)
           \/ Exists(publish.fs0, publish.out) /\ ~publish.force) =>
          /\ publish.fs = publish.fs0
          /\ publish.removed = {}
          /\ publish.copied = {}
          /\ publish.pc \in {"args", "game", "output", "exited"}
          /\ (publish.pc = "exited") => (publish.exitCode = 1)
    /\ (publish.removed # {}) =>
          /\ publish.removed = {publish.out}
          /\ publish.force
          /\ Exists(publish.fs0, publish.out)
    /\ \A e \in publish.fs0 : IsPrefix(publish.out, e.p) \/ e \in publish.fs

C32_Witness ==
    /\ publish.pc = "exited"
    /\ publish.exitCode = 1
    /\ publish.args = "slug"
    /\ ~publish.force
    /\ Exists(publish.fs0, GameDir)
    /\ Exists(publish.fs, publish.out \o <<"old.txt">>)


SkippedIn(p) == \E k \in 1..Len(p) : shouldSkip(p[k])

\* C34: every copyDir the publish script starts returns, whatever the source
\* tree and the output directory, and no entry whose name, or the name of a
\* directory above it, is node_modules, dist, dist-node, .turbo, .git or
\* tsconfig.tsbuildinfo is ever copied.
C34_CopyDirTerminates ==
    /\ (publish.pc = "copying") ~> (publish.pc = "copied")
    /\ [](\A p \in publish.copied : ~SkippedIn(p))


RECURSIVE SplitLines(_)
SplitLines(t) ==
    IF t = <<>> THEN <<>>
    ELSE LET ends == {i \in 1..Len(t) : t[i] = NL}
             j == IF ends = {} THEN Len(t) + 1 ELSE CHOOSE i \in ends : \A h \in ends : i <= h
         IN  <<SubSeq(t, 1, j - 1)>> \o SplitLines(SubSeq(t, j + 1, Len(t)))

Names(line, slug) == \E i \in 1..Len(line) : line[i].x = slug

OtherLines(t, slug) == SelectSeq(SplitLines(t), LAMBDA line : ~Names(line, slug))

MembersOf(t, slug) ==
    {i \in 1..Len(t) : MatchStart(t) < i /\ i < MatchEnd(t) /\ t[i].x = slug}

\* C33: after one or more completed runs of updateWorkspaceMembers for a
\* slug, the members list of Cargo.toml names that slug exactly once and the
\* lines of Cargo.toml that do not name it are the ones it had before.
C33_RegistrationIdempotent ==
    (cargo.runs >= 1 /\ ~cargo.threw) =>
        /\ Cardinality(MembersOf(cargo.text, cargo.slug)) = 1
        /\ OtherLines(cargo.text, cargo.slug) = OtherLines(cargo.text0, cargo.slug)

====
